---- MODULE Spec2Model ----
(***************************************************************************)
(* deber: Debian packaging with Docker.                                    *)
(*                                                                         *)
(* A model of the build-orchestration engine: the run driver of main.go,   *)
(* the stages of pkg/steps, the Docker wrapper of pkg/docker, the mount    *)
(* comparison of pkg/util and the host directories the stages work on.     *)
(***************************************************************************)
EXTENDS Integers, Sequences, FiniteSets, TLC

VARIABLES
    cfg,        \* the flags and the changelog data of the invocation (main.go:27-44, 126-136)
    dock,       \* the Docker Engine: the image, the container, the tags DockerHub lists
    fs,         \* the host directories: source parent, build directory, package store
    pc,         \* position of run in the stage sequence
    executed,   \* stages called so far in this invocation: <<[stage, outcome, err]>>
    calls,      \* Docker wrapper calls issued so far in this invocation: <<[stage, call]>>
    runErr,     \* what run returned: "running" until it returns, "nil", or the error
    fsBefore,   \* fs as it was when the latest stage began
    dockBefore, \* dock as it was when the latest stage began
    runs,       \* number of invocations of the tool so far
    prev,       \* how the previous invocation ended
    interfered, \* somebody else changed the container or time passed since the first stage
    cmp,        \* the mount lists handed to CompareMounts and, once called, <<what it returned>>
    named,      \* the naming.Args handed to naming.New and, once called, <<what it returned>>
    given,      \* what the latest stage called on its own was given: the call the engine
                \* fails, the command that exits non-zero, what somebody else does
                \* meanwhile, and the number of calls issued before it
    session     \* the interactive exec session of ContainerExec and its resize watcher

vars == <<cfg, dock, fs, pc, executed, calls, runErr, fsBefore, dockBefore, runs,
          prev, interfered, cmp, named, given, session>>

(***************************************************************************)
(* Bounds of the model                                                     *)
(***************************************************************************)
MaxMountLen == 3    \* longest mount list handed to CompareMounts on its own
MaxRuns == 2        \* invocations of the tool in one behaviour
MaxTicks == 2       \* image ages range over 0..MaxTicks; --age over 1..MaxTicks
MaxExternal == 1    \* changes an external actor makes to the container per behaviour
MaxTarballCalls == 2  \* calls of Tarball on its own, one after the other
MaxArchiveCalls == 2  \* calls of Archive on its own, one after the other
MaxVersionLen == 3    \* longest version string built from VersionChars
MaxStateCalls == 2    \* calls of Start, Stop and Remove on their own, one after the other
MaxExecCalls == 1     \* calls of Shell, Depends, Package and Lint on their own
MaxPackages == 2      \* --package flags given to Create on its own
MaxRaces == 2         \* stages of one run during which somebody else acts on the container
MaxResizes == 2       \* changes of the size of the terminal while the program runs

None == "none"

(***************************************************************************)
(* pkg/util: CompareMounts                                                 *)
(***************************************************************************)
\* mount.Mount values: bind mounts, told apart by source, target and read-only flag
Mount(src, tgt, ro) == [Type |-> "bind", Source |-> src, Target |-> tgt, ReadOnly |-> ro]

Contains(s, e) == \E i \in 1..Len(s) : s[i] = e

\* a bug: the lengths are not compared
CompareMountsNoLen(a, b) ==
    Cardinality({i \in 1..Len(a) : Contains(b, a[i])}) = Len(a)

CompareMounts(a, b) ==
    IF Len(a) # Len(b)
    THEN FALSE
    ELSE LET matches == Cardinality({i \in 1..Len(a) : Contains(b, a[i])})
         IN  matches = Len(a)

(***************************************************************************)
(* The host file system the stages work on                                 *)
(***************************************************************************)
\* File names, split at the dots as strings.Split(name, ".") splits them.
TarGz   == <<"pkg_1", "0", "orig", "tar", "gz">>          \* pkg_1.0.orig.tar.gz
TarXz   == <<"pkg_1", "0", "orig", "tar", "xz">>          \* pkg_1.0.orig.tar.xz
TarAsc  == <<"pkg_1", "0", "orig", "tar", "gz", "asc">>   \* pkg_1.0.orig.tar.gz.asc
RealGz  == <<"pkg-1", "0", "tar", "gz">>                  \* pkg-1.0.tar.gz
Deb     == <<"pkg_1", "0-1_all", "deb">>                  \* pkg_1.0-1_all.deb

\* the names in the order os.ReadDir lists them (sorted by file name)
SortedNames == <<RealGz, Deb, TarGz, TarAsc, TarXz>>
FileNames == {SortedNames[i] : i \in 1..Len(SortedNames)}

\* n.SourceParentDir, n.BuildDir, n.PackagesVersionDir and a directory outside them
Dirs == {"parent", "build", "store", "elsewhere"}

Absent == [kind |-> "absent", data |-> None, mode |-> None, to |-> <<>>]
File(d, m) == [kind |-> "file", data |-> d, mode |-> m, to |-> <<>>]
\* a symbolic link to the entry name of directory dir
Link(dir, name) == [kind |-> "link", data |-> None, mode |-> None, to |-> <<dir, name>>]
\* a directory; data tells whether it has entries
Directory(content) == [kind |-> "dir", data |-> content, mode |-> None, to |-> <<>>]

Path(dir, name) == <<dir, name>>
At(f, path) == f.files[path[1]][path[2]]
Put(f, path, e) ==
    [f EXCEPT !.files = [@ EXCEPT ![path[1]] = [@ EXCEPT ![path[2]] = e]]]

\* os.ReadDir: the names of the entries of a directory
ReadDir(f, dir) == {x \in FileNames : f.files[dir][x].kind # "absent"}

\* os.Remove: unlinks a file or a link, removes a directory only when it is empty
OsRemove(f, path) ==
    LET e == At(f, path)
    IN  IF e.kind = "absent" \/ (e.kind = "dir" /\ e.data # "empty")
        THEN [err |-> "remove " \o path[1], fs |-> f]
        ELSE [err |-> None, fs |-> Put(f, path, Absent)]

\* filepath.EvalSymlinks: the path with every link followed; fails on a link to nothing
RECURSIVE EvalSymlinksFrom(_, _, _)
EvalSymlinksFrom(f, path, fuel) ==
    LET e == At(f, path)
    IN  IF e.kind = "absent" THEN [err |-> "lstat " \o path[1], path |-> path]
        ELSE IF e.kind # "link" THEN [err |-> None, path |-> path]
        ELSE IF fuel = 0 THEN [err |-> "too many links", path |-> path]
        ELSE EvalSymlinksFrom(f, e.to, fuel - 1)

EvalSymlinks(f, path) == EvalSymlinksFrom(f, path, Cardinality(FileNames))

\* os.Rename: rename(2) moves the entry itself; it fails across file systems (EXDEV),
\* when the source is missing, and when a directory and a non-directory would replace
\* each other
OsRename(f, src, dst) ==
    LET e == At(f, src)
        o == At(f, dst)
    IN  IF \/ e.kind = "absent"
           \/ f.dev[src[1]] # f.dev[dst[1]]
           \/ (o.kind = "dir" /\ e.kind # "dir")
           \/ (o.kind # "absent" /\ o.kind # "dir" /\ e.kind = "dir")
        THEN [err |-> "rename " \o src[1], fs |-> f]
        ELSE IF src = dst THEN [err |-> None, fs |-> f]
        ELSE [err |-> None, fs |-> Put(Put(f, dst, e), src, Absent)]

(***************************************************************************)
(* pkg/steps: Tarball                                                      *)
(***************************************************************************)
\* fmt.Sprintf("%s_%s.orig.tar", n.Source, n.Upstream) for source pkg, upstream 1.0
tarball == <<"pkg_1", "0", "orig", "tar">>
extensions == {"gz", "xz", "bz2"}

\* strings.HasPrefix on names split at the dots (no name of FileNames continues the
\* last component of the prefix)
HasPrefix(name, p) == Len(name) >= Len(p) /\ SubSeq(name, 1, Len(p)) = p
extensionInFile(name) == name[Len(name)]

\* a bug: the extension of a parent-directory file is not looked at
sourceTarballsAnyExt(f) == {x \in ReadDir(f, "parent") : HasPrefix(x, tarball)}

sourceTarballs(f) ==
    {x \in ReadDir(f, "parent") :
        HasPrefix(x, tarball) /\ extensionInFile(x) \in extensions}

buildTarballs(f) == {x \in ReadDir(f, "build") : HasPrefix(x, tarball)}

ErrMultipleBuild == "multiple tarballs found in build directory"
ErrMultipleSource == "multiple tarballs found in parent source directory"
ErrMissing == "upstream tarball not found"

Res(outcome, err, f) == [outcome |-> outcome, err |-> err, fs |-> f]

\* a bug: a tarball staged earlier is left in the build directory
TarballMoveKeepsStale(f) ==
    LET s == CHOOSE x \in sourceTarballs(f) : TRUE
        src == EvalSymlinks(f, Path("parent", s))
        mv == OsRename(f, src.path, Path("build", s))
    IN  IF src.err # None THEN Res("Failed", src.err, f)
        ELSE IF mv.err # None THEN Res("Failed", mv.err, mv.fs)
        ELSE Res("Done", None, mv.fs)

\* the branch of Tarball taken with exactly one tarball in the parent directory
TarballMove(f) ==
    LET s == CHOOSE x \in sourceTarballs(f) : TRUE
        rm == IF Cardinality(buildTarballs(f)) = 1
              THEN OsRemove(f, Path("build", CHOOSE x \in buildTarballs(f) : TRUE))
              ELSE [err |-> None, fs |-> f]
        src == EvalSymlinks(rm.fs, Path("parent", s))
        mv == OsRename(rm.fs, src.path, Path("build", s))
    IN  IF rm.err # None THEN Res("Failed", rm.err, rm.fs)
        ELSE IF src.err # None THEN Res("Failed", src.err, rm.fs)
        ELSE IF mv.err # None THEN Res("Failed", mv.err, mv.fs)
        ELSE Res("Done", None, mv.fs)

\* a bug: the directories are looked at before the version is
TarballNativeLate(c, f) ==
    IF Cardinality(buildTarballs(f)) > 1 THEN Res("Failed", ErrMultipleBuild, f)
    ELSE IF Cardinality(sourceTarballs(f)) > 1 THEN Res("Failed", ErrMultipleSource, f)
    ELSE IF c.version = c.upstream THEN Res("Skipped", None, f)
    ELSE IF Cardinality(sourceTarballs(f)) < 1 /\ Cardinality(buildTarballs(f)) < 1
    THEN Res("Failed", ErrMissing, f)
    ELSE IF Cardinality(sourceTarballs(f)) = 1 THEN TarballMove(f)
    ELSE Res("Skipped", None, f)

\* a bug: more than one tarball in the parent directory is not noticed
TarballFirstOfMany(c, f) ==
    IF c.version = c.upstream THEN Res("Skipped", None, f)
    ELSE IF Cardinality(buildTarballs(f)) > 1 THEN Res("Failed", ErrMultipleBuild, f)
    ELSE IF Cardinality(sourceTarballs(f)) < 1 /\ Cardinality(buildTarballs(f)) < 1
    THEN Res("Failed", ErrMissing, f)
    ELSE IF Cardinality(sourceTarballs(f)) >= 1 THEN TarballMove(f)
    ELSE Res("Skipped", None, f)

Tarball(c, f) ==
    IF c.version = c.upstream THEN Res("Skipped", None, f)
    ELSE IF Cardinality(buildTarballs(f)) > 1 THEN Res("Failed", ErrMultipleBuild, f)
    ELSE IF Cardinality(sourceTarballs(f)) > 1 THEN Res("Failed", ErrMultipleSource, f)
    ELSE IF Cardinality(sourceTarballs(f)) < 1 /\ Cardinality(buildTarballs(f)) < 1
    THEN Res("Failed", ErrMissing, f)
    ELSE IF Cardinality(sourceTarballs(f)) = 1 THEN TarballMove(f)
    ELSE Res("Skipped", None, f)

(***************************************************************************)
(* pkg/steps: Archive                                                      *)
(***************************************************************************)
\* md5.Sum of the bytes of a file. The sum has 128 bits, so different bytes can have
\* the same sum: "deb-twin" stands for bytes other than "deb" with the sum of "deb".
Md5Sum(data) == <<"md5", IF data = "deb-twin" THEN "deb" ELSE data>>

\* os.Open followed by io.ReadAll and Stat: the bytes and the mode behind a path
ReadFile(f, path) ==
    LET p == EvalSymlinks(f, path)
    IN  IF p.err # None THEN [err |-> "open " \o path[1], data |-> None, mode |-> None]
        ELSE IF At(f, p.path).kind = "dir"
        THEN [err |-> "read " \o path[1], data |-> None, mode |-> None]
        ELSE [err |-> None, data |-> At(f, p.path).data, mode |-> At(f, p.path).mode]

\* os.WriteFile: open with O_WRONLY|O_CREATE|O_TRUNC and write; the permission
\* argument is used only when the file is created
WriteFile(f, path, data, mode) ==
    LET p == EvalSymlinks(f, path)
        e == At(f, p.path)
    IN  IF e.kind = "absent"
        THEN [err |-> None, fs |-> Put(f, p.path, File(data, mode))]
        ELSE IF p.err # None \/ e.kind = "dir"
        THEN [err |-> "write " \o path[1], fs |-> f]
        ELSE [err |-> None, fs |-> Put(f, p.path, File(data, e.mode))]

\* a bug: the file is moved into the store, not copied
ArchiveFileMoves(f, name) ==
    LET source == ReadFile(f, Path("build", name))
        target == ReadFile(f, Path("store", name))
        wr == WriteFile(f, Path("store", name), source.data, source.mode)
    IN  IF source.err # None THEN Res("Failed", source.err, f)
        ELSE IF At(f, Path("store", name)).kind # "absent"
                /\ EvalSymlinks(f, Path("store", name)).err = None /\ target.err # None
        THEN Res("Failed", target.err, f)
        ELSE IF At(f, Path("store", name)).kind # "absent"
                /\ EvalSymlinks(f, Path("store", name)).err = None
                /\ Md5Sum(target.data) = Md5Sum(source.data)
        THEN Res("Skipped", None, f)
        ELSE IF wr.err # None THEN Res("Failed", wr.err, f)
        ELSE Res("Done", None, Put(wr.fs, Path("build", name), Absent))

\* a bug: a file the store has under the same name is skipped whatever its bytes
ArchiveFileSkipByName(f, name) ==
    LET source == ReadFile(f, Path("build", name))
        wr == WriteFile(f, Path("store", name), source.data, source.mode)
    IN  IF source.err # None THEN Res("Failed", source.err, f)
        ELSE IF At(f, Path("store", name)).kind # "absent" THEN Res("Skipped", None, f)
        ELSE IF wr.err # None THEN Res("Failed", wr.err, f)
        ELSE Res("Done", None, wr.fs)

\* a bug: the checksums are not compared, every file is written again
ArchiveFileNoSkip(f, name) ==
    LET source == ReadFile(f, Path("build", name))
        wr == WriteFile(f, Path("store", name), source.data, source.mode)
    IN  IF source.err # None THEN Res("Failed", source.err, f)
        ELSE IF wr.err # None THEN Res("Failed", wr.err, f)
        ELSE Res("Done", None, wr.fs)

\* one round of the loop of Archive over the file f.Name() = name
ArchiveFile(f, name) ==
    LET sourcePath == Path("build", name)
        targetPath == Path("store", name)
        source == ReadFile(f, sourcePath)
        target == ReadFile(f, targetPath)
        wr == WriteFile(f, targetPath, source.data, source.mode)
    IN  IF source.err # None THEN Res("Failed", source.err, f)
        ELSE IF At(f, targetPath).kind # "absent" /\ EvalSymlinks(f, targetPath).err = None
                /\ target.err # None
        THEN Res("Failed", target.err, f)
        ELSE IF At(f, targetPath).kind # "absent" /\ EvalSymlinks(f, targetPath).err = None
                /\ Md5Sum(target.data) = Md5Sum(source.data)
        THEN Res("Skipped", None, f)
        ELSE IF wr.err # None THEN Res("Failed", wr.err, f)
        ELSE Res("Done", None, wr.fs)

\* the loop of Archive from the i-th entry of the build directory on; log collects
\* what was reported for each file
RECURSIVE ArchiveFrom(_, _, _)
ArchiveFrom(f, i, log) ==
    IF i > Len(SortedNames) THEN [outcome |-> "Done", err |-> None, fs |-> f, log |-> log]
    ELSE LET name == SortedNames[i]
             e == At(f, Path("build", name))
             r == ArchiveFile(f, name)
         IN  IF e.kind = "absent" \/ e.kind = "dir" THEN ArchiveFrom(f, i + 1, log)
             ELSE IF r.outcome = "Failed"
             THEN [outcome |-> "Failed", err |-> r.err, fs |-> r.fs,
                   log |-> Append(log, <<name, "Failed">>)]
             ELSE ArchiveFrom(r.fs, i + 1, Append(log, <<name, r.outcome>>))

Archive(c, f) == ArchiveFrom(f, 1, <<>>)

(***************************************************************************)
(* pkg/docker: the wrapper of the Docker Engine API                        *)
(***************************************************************************)
ContainerStateRunning == "running"
\* the states of a container; "absent" stands for no container of the name
ContainerStates == {"absent", "created", ContainerStateRunning, "exited"}
\* the states a container can be found in when somebody else has handled it as well
LifecycleStates == ContainerStates \cup {"restarting", "paused", "dead"}
\* the engine counts a restarting and a paused container as running ones
EngineRunning(state) == state \in {ContainerStateRunning, "restarting", "paused"}

\* st is the state a stage threads through its calls: the engine, the host files, and
\* the calls issued so far. The k-th call a stage issues is the one the engine fails
\* for reasons of its own (daemon unreachable, time-out); k = 0 fails none.
Fault(st, k) == Len(st.calls) + 1 = k
\* a call of the wrapper: its name, the repository or command it is about, and for a
\* command whether the container is on the bridge network when it starts
Call(name, arg, net) == [name |-> name, arg |-> arg, net |-> net]
CalledWith(st, name, arg, net) == [st EXCEPT !.calls = Append(@, Call(name, arg, net))]
Called(st, name) == CalledWith(st, name, "", FALSE)
Ok(st) == [err |-> None, st |-> st]

\* what somebody else can do to the container while a stage is at work
Races == {None, "remove", "stop", "start"}
Interfere(d, race) ==
    CASE race = "remove" /\ d.state # "absent" ->
           [d EXCEPT !.state = "absent", !.mounts = <<>>, !.deps = FALSE, !.net = FALSE,
                     !.base = None]
      [] race = "stop" /\ EngineRunning(d.state) -> [d EXCEPT !.state = "exited"]
      [] race = "start" /\ d.state \in {"created", "exited"} ->
           [d EXCEPT !.state = ContainerStateRunning]
      [] OTHER -> d
\* the state query of a stage: st.race happens after the engine has answered it and
\* before the stage issues its next call
Queried(st, name) ==
    [Called(st, name) EXCEPT !.dock = Interfere(@, st.race), !.race = None]
Err(e, st) == [err |-> e, st |-> st]

IsImageBuilt(d) == d.image.built

\* a bug: an image exactly as old as the maximum age is kept
IsImageYoungInclusive(age, maxAge) == age <= maxAge

\* steps.go:45
IsImageYoung(age, maxAge) == age < maxAge

IsContainerCreated(d) == d.state # "absent"

\* a bug: any existing container counts as started
IsContainerStartedAnyState(d) == d.state # "absent"

\* a bug: the engine's own notion of running, which takes in restarting and paused
IsContainerStartedAsEngine(d) == EngineRunning(d.state)

IsContainerStarted(d) == d.state = ContainerStateRunning

IsContainerStopped(d) == ~(d.state # "absent" /\ d.state = ContainerStateRunning)

\* The mounts of the container, as the engine reports them.
ContainerMounts(d) == d.mounts

\* the engine refuses to start a container that does not exist, is paused or is dead;
\* starting a running or restarting one changes nothing
ContainerStart(st, k) ==
    LET s == Called(st, "ContainerStart")
    IN  IF Fault(st, k) \/ st.dock.state \in {"absent", "paused", "dead"}
        THEN Err("ContainerStart", s)
        ELSE IF EngineRunning(st.dock.state) THEN Ok(s)
        ELSE Ok([s EXCEPT !.dock.state = ContainerStateRunning])

\* stopping a container that is not running changes nothing
ContainerStop(st, k) ==
    LET s == Called(st, "ContainerStop")
    IN  IF Fault(st, k) \/ st.dock.state = "absent" THEN Err("ContainerStop", s)
        ELSE IF EngineRunning(st.dock.state)
        THEN Ok([s EXCEPT !.dock.state = "exited"])
        ELSE Ok(s)

\* types.ContainerRemoveOptions{} sets no Force: the engine refuses to remove a
\* running container. The call is kept with the state the container is in.
ContainerRemove(st, k) ==
    LET s == CalledWith(st, "ContainerRemove", st.dock.state, FALSE)
    IN  IF Fault(st, k) \/ st.dock.state = "absent" \/ EngineRunning(st.dock.state)
        THEN Err("ContainerRemove", s)
        ELSE Ok([s EXCEPT !.dock.state = "absent", !.dock.mounts = <<>>,
                          !.dock.deps = FALSE, !.dock.net = FALSE, !.dock.base = None])

NoDuplicates(s) == \A i, j \in 1..Len(s) : s[i] = s[j] => i = j

\* the engine refuses a name that is taken, an image it does not have, and a mount
\* list that names a mount point twice; a new container is attached to the bridge
ContainerCreate(st, mounts, k) ==
    LET s == Called(st, "ContainerCreate")
    IN  IF \/ Fault(st, k)
           \/ st.dock.state # "absent"
           \/ ~st.dock.image.built
           \/ ~NoDuplicates([i \in 1..Len(mounts) |-> mounts[i].Target])
        THEN Err("ContainerCreate", s)
        ELSE Ok([s EXCEPT !.dock.state = "created", !.dock.mounts = mounts,
                          !.dock.net = TRUE, !.dock.deps = FALSE, !.dock.base = "current"])

\* the name is given to the image that was built; a container keeps the image it was
\* created from, which is then the previous one
ImageBuild(st, repo, k) ==
    LET s == CalledWith(st, "ImageBuild", repo, FALSE)
    IN  IF Fault(st, k) THEN Err("ImageBuild", s)
        ELSE Ok([s EXCEPT !.dock.image = [built |-> TRUE, age |-> 0, from |-> repo],
                          !.dock.base = IF @ = "current" THEN "previous" ELSE @])

\* a bug: a container that is connected is left connected
ContainerNetworkConnectsOnly(st, wantConnected, k) ==
    LET s == Called(st, "ContainerNetwork")
    IN  IF Fault(st, k) \/ st.dock.state = "absent" THEN Err("ContainerNetwork", s)
        ELSE Ok([s EXCEPT !.dock.net = @ \/ wantConnected])

\* ContainerNetwork: connects to or disconnects from the bridge as wanted
ContainerNetwork(st, wantConnected, k) ==
    LET s == Called(st, "ContainerNetwork")
    IN  IF Fault(st, k) \/ st.dock.state = "absent" THEN Err("ContainerNetwork", s)
        ELSE Ok([s EXCEPT !.dock.net = wantConnected])

ErrNonZero == "command exited with non-zero status"

ExecArgs(cmd, asRoot, network, skip, interactive) ==
    [Cmd |-> cmd, AsRoot |-> asRoot, Network |-> network, Skip |-> skip,
     Interactive |-> interactive]

\* a bug: the exit status of an interactive session is looked at as well
ContainerExecChecksAll(st, args, k, exit) ==
    IF args.Skip THEN Ok(st)
    ELSE LET nw == ContainerNetwork(st, args.Network, k)
             s == CalledWith(nw.st, "ContainerExec", args.Cmd, nw.st.dock.net)
         IN  IF nw.err # None THEN nw
             ELSE IF Fault(nw.st, k) \/ nw.st.dock.state # ContainerStateRunning
             THEN Err("ContainerExec", s)
             ELSE IF exit # 0 THEN Err(ErrNonZero, s)
             ELSE Ok(s)

\* ContainerExec. exit is the exit status of the command, should it run.
ContainerExec(st, args, k, exit) ==
    IF args.Skip THEN Ok(st)
    ELSE LET nw == ContainerNetwork(st, args.Network, k)
             s == CalledWith(nw.st, "ContainerExec", args.Cmd, nw.st.dock.net)
         IN  IF nw.err # None THEN nw
             ELSE IF Fault(nw.st, k) \/ nw.st.dock.state # ContainerStateRunning
             THEN Err("ContainerExec", s)
             ELSE IF ~args.Interactive /\ exit # 0 THEN Err(ErrNonZero, s)
             ELSE Ok(s)

\* ContainerExec of an interactive command up to the copy of the output of the session:
\* r is what the calls before ExecAttach returned, raw the step that fails when the
\* standard input is a terminal
TerminalSteps == {None, "MakeRaw", "ContainerExecResize"}
ExecAttached(r, tty, raw) ==
    IF r.err = None /\ tty /\ raw # None THEN Err(raw, r.st) ELSE r

\* ContainerExecResize as resizeIfChanged calls it: the engine sets the size of the
\* terminal of the session, which is no part of the container, and refuses once the
\* session has ended; resizeIfChanged drops the error
ContainerExecResize(st, s) ==
    IF s.exec = "attached" THEN Ok(st) ELSE Err("ContainerExecResize", st)

(***************************************************************************)
(* pkg/dockerhub: MatchRepo                                                *)
(***************************************************************************)
ErrNoMatch == "couldn't match tag with repo"

\* hub[repo] tells whether the tags DockerHub lists for repo include n.Target; what
\* GetTags has answered is kept in dock.hub
RECURSIVE MatchRepoFrom(_, _, _, _, _)
MatchRepoFrom(st, repos, i, hub, k) ==
    IF i > Len(repos) THEN [err |-> ErrNoMatch, repo |-> None, st |-> st]
    ELSE LET s == [CalledWith(st, "GetTags", repos[i], FALSE) EXCEPT
                       !.dock.hub = [seen |-> TRUE, tags |-> hub]]
         IN  IF Fault(st, k) THEN [err |-> "GetTags", repo |-> None, st |-> s]
             ELSE IF hub[repos[i]] THEN [err |-> None, repo |-> repos[i], st |-> s]
             ELSE MatchRepoFrom(s, repos, i + 1, hub, k)

\* a bug: the repositories are tried from the last to the first
MatchRepoReversed(st, repos, hub, k) ==
    MatchRepoFrom(st, [i \in 1..Len(repos) |-> repos[Len(repos) + 1 - i]], 1, hub, k)

MatchRepo(st, repos, hub, k) == MatchRepoFrom(st, repos, 1, hub, k)

(***************************************************************************)
(* pkg/steps: the stages that talk to the engine                           *)
(***************************************************************************)
\* what a stage reports: log.Done, log.Skipped or log.Failed(err), and the state it leaves
SR(outcome, err, st) == [outcome |-> outcome, err |-> err, st |-> st]

Build(c, st, k, hub) ==
    LET s1 == Called(st, "IsImageBuilt")
        s2 == Called(s1, "ImageAge")
        sa == IF IsImageBuilt(st.dock) THEN s2 ELSE s1
        m == MatchRepo(sa, <<"debian", "ubuntu">>, hub, k)
        b == ImageBuild(m.st, m.repo, k)
    IN  IF Fault(st, k) THEN SR("Failed", "IsImageBuilt", s1)
        ELSE IF IsImageBuilt(st.dock) /\ Fault(s1, k) THEN SR("Failed", "ImageAge", s2)
        ELSE IF IsImageBuilt(st.dock) /\ IsImageYoung(st.dock.image.age, c.maxAge)
        THEN SR("Skipped", None, s2)
        ELSE IF m.err # None THEN SR("Failed", m.err, m.st)
        ELSE IF b.err # None THEN SR("Failed", b.err, b.st)
        ELSE SR("Done", None, b.st)

\* the paths --package can name: a directory, a .deb file, another file, nothing
\* debs is a directory, a.deb and notes.txt are files, lost.deb is a symbolic link to
\* a file that is gone, gone.txt does not exist and nothing* matches no file
ExtraPaths == {"debs", "a.deb", "notes.txt", "lost.deb", "gone.txt", "nothing*"}
\* filepath.Glob: the existing paths a pattern matches (it does not follow links)
Glob(pattern) == IF pattern \in {"nothing*", "gone.txt"} THEN <<>> ELSE <<pattern>>
\* os.Stat follows links
Stat(path) == path \notin {"lost.deb", "gone.txt", "nothing*"}
IsDir(path) == path = "debs"
HasSuffixDeb(path) == path \in {"a.deb", "lost.deb"}

ErrExtraPackage == "please specify a directory or .deb file"
ErrStat == "stat: no such file or directory"

\* the directories of the base mounts that Create makes when they are missing:
\* n.BuildDir and n.CacheDir (n.SourceDir is the working directory)
HostDirs == {"BuildDir", "CacheDir"}

BaseMounts ==
    << Mount("SourceDir", "/build/source", FALSE),
       Mount("BuildDir", "/build", FALSE),
       Mount("CacheDir", "/var/cache/apt", FALSE) >>

\* the loop over extraPackages of Create, from the i-th package on
RECURSIVE ExtraMounts(_, _, _)
ExtraMounts(packages, i, mounts) ==
    IF i > Len(packages) THEN [err |-> None, mounts |-> mounts]
    ELSE LET files == Glob(packages[i])
         IN  IF files = <<>> THEN ExtraMounts(packages, i + 1, mounts)
             ELSE IF ~Stat(files[1]) THEN [err |-> ErrStat, mounts |-> mounts]
             ELSE IF ~IsDir(files[1]) /\ ~HasSuffixDeb(files[1])
             THEN [err |-> ErrExtraPackage, mounts |-> mounts]
             ELSE ExtraMounts(packages, i + 1,
                      Append(mounts, Mount(files[1], "/archive/" \o files[1], TRUE)))

DesiredMounts(c) == ExtraMounts(c.packages, 1, BaseMounts)

\* the loop over the mounts of Create: os.MkdirAll for every source that is missing
MkdirAllMounts(st) == [st EXCEPT !.fs.dirs = HostDirs]

\* a bug: the old container is removed without being stopped first
CreateNoStop(c, st, k) ==
    LET want == DesiredMounts(c)
        s1 == Called(st, "IsContainerCreated")
        s2 == Called(s1, "ContainerMounts")
        rm == ContainerRemove(s2, k)
        cr == ContainerCreate(MkdirAllMounts(IF IsContainerCreated(st.dock) THEN rm.st
                                                                             ELSE s1),
                              want.mounts, k)
    IN  IF want.err # None THEN SR("Failed", want.err, st)
        ELSE IF Fault(st, k) THEN SR("Failed", "IsContainerCreated", s1)
        ELSE IF IsContainerCreated(st.dock) /\ Fault(s1, k)
        THEN SR("Failed", "ContainerMounts", s2)
        ELSE IF IsContainerCreated(st.dock)
                /\ CompareMounts(ContainerMounts(st.dock), want.mounts)
        THEN SR("Skipped", None, s2)
        ELSE IF IsContainerCreated(st.dock) /\ rm.err # None
        THEN SR("Failed", rm.err, rm.st)
        ELSE IF cr.err # None THEN SR("Failed", cr.err, cr.st)
        ELSE SR("Done", None, cr.st)

\* a bug: the extra packages are looked at after the engine has been asked
CreateChecksLate(c, st, k) ==
    LET want == DesiredMounts(c)
        s1 == Called(st, "IsContainerCreated")
        s2 == Called(s1, "ContainerMounts")
        stop == ContainerStop(s2, k)
        rm == ContainerRemove(stop.st, k)
        cr == ContainerCreate(MkdirAllMounts(IF IsContainerCreated(st.dock) THEN rm.st
                                                                             ELSE s1),
                              want.mounts, k)
    IN  IF Fault(st, k) THEN SR("Failed", "IsContainerCreated", s1)
        ELSE IF want.err # None THEN SR("Failed", want.err, s1)
        ELSE IF IsContainerCreated(st.dock) /\ Fault(s1, k)
        THEN SR("Failed", "ContainerMounts", s2)
        ELSE IF IsContainerCreated(st.dock)
                /\ CompareMounts(ContainerMounts(st.dock), want.mounts)
        THEN SR("Skipped", None, s2)
        ELSE IF IsContainerCreated(st.dock) /\ stop.err # None
        THEN SR("Failed", stop.err, stop.st)
        ELSE IF IsContainerCreated(st.dock) /\ rm.err # None
        THEN SR("Failed", rm.err, rm.st)
        ELSE IF cr.err # None THEN SR("Failed", cr.err, cr.st)
        ELSE SR("Done", None, cr.st)

\* run has made the base directories; Create makes n.BuildDir and n.CacheDir below
\* them. The extra packages were found by Glob and need no making.
Create(c, st, k) ==
    LET want == DesiredMounts(c)
        s1 == Called(st, "IsContainerCreated")
        s2 == Called(s1, "ContainerMounts")
        stop == ContainerStop(s2, k)
        rm == ContainerRemove(stop.st, k)
        cr == ContainerCreate(MkdirAllMounts(IF IsContainerCreated(st.dock) THEN rm.st
                                                                             ELSE s1),
                              want.mounts, k)
    IN  IF want.err # None THEN SR("Failed", want.err, st)
        ELSE IF Fault(st, k) THEN SR("Failed", "IsContainerCreated", s1)
        ELSE IF IsContainerCreated(st.dock) /\ Fault(s1, k)
        THEN SR("Failed", "ContainerMounts", s2)
        ELSE IF IsContainerCreated(st.dock)
                /\ CompareMounts(ContainerMounts(st.dock), want.mounts)
        THEN SR("Skipped", None, s2)
        ELSE IF IsContainerCreated(st.dock) /\ stop.err # None
        THEN SR("Failed", stop.err, stop.st)
        ELSE IF IsContainerCreated(st.dock) /\ rm.err # None
        THEN SR("Failed", rm.err, rm.st)
        ELSE IF cr.err # None THEN SR("Failed", cr.err, cr.st)
        ELSE SR("Done", None, cr.st)

\* a bug: the container is started without looking at its state
StartAlways(c, st, k) ==
    LET run == ContainerStart(st, k)
    IN  IF run.err # None THEN SR("Failed", run.err, run.st) ELSE SR("Done", None, run.st)

\* a bug: a start call that has failed is issued once more
StartRetries(c, st, k) ==
    LET s1 == Queried(st, "IsContainerStarted")
        run == ContainerStart(s1, k)
        again == ContainerStart(run.st, k)
    IN  IF Fault(st, k) THEN SR("Failed", "IsContainerStarted", s1)
        ELSE IF IsContainerStarted(st.dock) THEN SR("Skipped", None, s1)
        ELSE IF run.err = None THEN SR("Done", None, run.st)
        ELSE IF again.err # None THEN SR("Failed", again.err, again.st)
        ELSE SR("Done", None, again.st)

Start(c, st, k) ==
    LET s1 == Queried(st, "IsContainerStarted")
        run == ContainerStart(s1, k)
    IN  IF Fault(st, k) THEN SR("Failed", "IsContainerStarted", s1)
        ELSE IF IsContainerStarted(st.dock) THEN SR("Skipped", None, s1)
        ELSE IF run.err # None THEN SR("Failed", run.err, run.st)
        ELSE SR("Done", None, run.st)

\* a bug: Stop takes every container for a stopped one
StopSkips(c, st, k) ==
    LET s1 == Queried(st, "IsContainerStopped")
    IN  IF Fault(st, k) THEN SR("Failed", "IsContainerStopped", s1)
        ELSE SR("Skipped", None, s1)

Stop(c, st, k) ==
    LET s1 == Queried(st, "IsContainerStopped")
        halt == ContainerStop(s1, k)
    IN  IF Fault(st, k) THEN SR("Failed", "IsContainerStopped", s1)
        ELSE IF IsContainerStopped(st.dock) THEN SR("Skipped", None, s1)
        ELSE IF halt.err # None THEN SR("Failed", halt.err, halt.st)
        ELSE SR("Done", None, halt.st)

Remove(c, st, k) ==
    LET s1 == Queried(st, "IsContainerCreated")
        rm == ContainerRemove(s1, k)
    IN  IF Fault(st, k) THEN SR("Failed", "IsContainerCreated", s1)
        ELSE IF ~IsContainerCreated(st.dock) THEN SR("Skipped", None, s1)
        ELSE IF rm.err # None THEN SR("Failed", rm.err, rm.st)
        ELSE SR("Done", None, rm.st)

\* the loop "for _, arg := range args" of Depends and Lint: the commands run in turn
\* until one fails; bad is the index of the command that exits non-zero (0: none)
RECURSIVE ExecAll(_, _, _, _, _)
ExecAll(st, args, i, k, bad) ==
    IF i > Len(args) THEN Ok(st)
    ELSE LET r == ContainerExec(st, args[i], k, IF i = bad THEN 1 ELSE 0)
         IN  IF r.err # None THEN r ELSE ExecAll(r.st, args, i + 1, k, bad)

\* a bug: the local source list is written whether or not packages were supplied
DependsArgsNoSkip(c) ==
    << ExecArgs("rm -f a.sources", TRUE, FALSE, FALSE, FALSE),
       ExecArgs("echo URIs: file:///archive ./ > a.sources", TRUE, FALSE, FALSE, FALSE),
       ExecArgs("dpkg-scanpackages -m . > Packages", TRUE, FALSE, FALSE, FALSE),
       ExecArgs("apt-get update", TRUE, TRUE, FALSE, FALSE),
       ExecArgs("apt-get build-dep ./", TRUE, TRUE, FALSE, FALSE) >>

DependsArgs(c) ==
    << ExecArgs("rm -f a.sources", TRUE, FALSE, FALSE, FALSE),
       ExecArgs("echo URIs: file:///archive ./ > a.sources", TRUE, FALSE,
                c.packages = <<>>, FALSE),
       ExecArgs("dpkg-scanpackages -m . > Packages", TRUE, FALSE, c.packages = <<>>, FALSE),
       ExecArgs("apt-get update", TRUE, TRUE, FALSE, FALSE),
       ExecArgs("apt-get build-dep ./", TRUE, TRUE, FALSE, FALSE) >>

\* apt-get build-dep leaves the build dependencies installed in the container
Depends(c, st, k, bad) ==
    LET r == ExecAll(st, DependsArgs(c), 1, k, bad)
    IN  IF r.err # None THEN SR("Failed", r.err, r.st)
        ELSE SR("Done", None, [r.st EXCEPT !.dock.deps = TRUE])

\* the command line of Package; tests is the fifth parameter of Package
PackageCmd(dpkgFlags, tests) ==
    IF ~tests
    THEN "DEB_BUILD_OPTIONS='nocheck nodoc notest' " \o "dpkg-buildpackage " \o dpkgFlags
    ELSE "dpkg-buildpackage " \o dpkgFlags

\* dpkg-buildpackage writes the package next to the source tree, that is into the
\* build directory mounted at /build
Package(c, st, k, bad) ==
    LET args == ExecArgs(PackageCmd(c.dpkgFlags, c.noTest), FALSE, c.network, FALSE, FALSE)
        r == ContainerExec(st, args, k, bad)
    IN  IF r.err # None THEN SR("Failed", r.err, r.st)
        ELSE SR("Done", None,
                [r.st EXCEPT !.fs = Put(@, Path("build", Deb), File("deb", "0644"))])

LintArgs(c) ==
    << ExecArgs("debi --with-depends", TRUE, TRUE, FALSE, FALSE),
       ExecArgs("debc", FALSE, FALSE, FALSE, FALSE),
       ExecArgs("lintian " \o c.lintianFlags, FALSE, FALSE, FALSE, FALSE) >>

\* a bug: the package is linted whether or not --lintian is given
LintAlways(c, st, k, bad) ==
    LET r == ExecAll(st, LintArgs(c), 1, k, bad)
    IN  IF r.err # None THEN SR("Failed", r.err, r.st) ELSE SR("Done", None, r.st)

Lint(c, st, k, bad) ==
    LET r == ExecAll(st, LintArgs(c), 1, k, bad)
    IN  IF ~c.lintian THEN SR("Skipped", None, st)
        ELSE IF r.err # None THEN SR("Failed", r.err, r.st)
        ELSE SR("Done", None, r.st)

ShellOptional(c, st, k, bad) ==
    LET r == ContainerExec(st, ExecArgs("", TRUE, TRUE, FALSE, TRUE), k, bad)
    IN  IF r.err # None THEN SR("Failed", r.err, r.st) ELSE SR("Done", None, r.st)

\* Tarball and Archive work on the host files only
TarballStage(c, st) ==
    LET r == Tarball(c, st.fs) IN SR(r.outcome, r.err, [st EXCEPT !.fs = r.fs])

\* files keeps what Archive has logged for each file
ArchiveStage(c, st) ==
    LET r == Archive(c, st.fs)
    IN  [outcome |-> r.outcome, err |-> r.err, st |-> [st EXCEPT !.fs = r.fs],
         files |-> r.log]

(***************************************************************************)
(* main.go: run                                                            *)
(***************************************************************************)
Order == <<"Build", "Create", "Start", "Tarball", "Depends", "Package", "Lint",
           "Archive", "Stop", "Remove">>

Goto(next) == [pc |-> next, ret |-> "running"]
Return(err) == [pc |-> "done", ret |-> IF err = None THEN "nil" ELSE err]

\* a bug: Tarball is called before the container is started
runTarballFirst(stage, err, c) ==
    IF err # None
    THEN IF stage = "Package" THEN Goto("Cleanup") ELSE Return(err)
    ELSE CASE stage = "Build" -> Goto("Create")
           [] stage = "Create" -> IF c.shell THEN Goto("Start") ELSE Goto("Tarball")
           [] stage = "Tarball" -> Goto("Start")
           [] stage = "Start" -> IF c.shell THEN Goto("Shell") ELSE Goto("Depends")
           [] stage = "Shell" -> Return(None)
           [] stage = "Depends" -> Goto("Package")
           [] stage = "Package" -> Goto("Lint")
           [] stage = "Lint" -> Goto("Archive")
           [] stage = "Archive" -> Goto("Stop")
           [] stage = "Stop" -> IF c.noRemove THEN Return(None) ELSE Goto("Remove")
           [] stage = "Remove" -> Return(None)

\* a bug: a failure of Lint is not returned, the run goes on
runIgnoreLint(stage, err, c) ==
    IF err # None /\ stage # "Lint"
    THEN IF stage = "Package" THEN Goto("Cleanup") ELSE Return(err)
    ELSE CASE stage = "Build" -> Goto("Create")
           [] stage = "Create" -> Goto("Start")
           [] stage = "Start" -> IF c.shell THEN Goto("Shell") ELSE Goto("Tarball")
           [] stage = "Shell" -> Return(None)
           [] stage = "Tarball" -> Goto("Depends")
           [] stage = "Depends" -> Goto("Package")
           [] stage = "Package" -> Goto("Lint")
           [] stage = "Lint" -> Goto("Archive")
           [] stage = "Archive" -> Goto("Stop")
           [] stage = "Stop" -> IF c.noRemove THEN Return(None) ELSE Goto("Remove")
           [] stage = "Remove" -> Return(None)

\* a bug: the container is removed whatever --no-remove says
runAlwaysRemove(stage, err, c) ==
    IF err # None
    THEN IF stage = "Package" THEN Goto("Cleanup") ELSE Return(err)
    ELSE CASE stage = "Build" -> Goto("Create")
           [] stage = "Create" -> Goto("Start")
           [] stage = "Start" -> IF c.shell THEN Goto("Shell") ELSE Goto("Tarball")
           [] stage = "Shell" -> Return(None)
           [] stage = "Tarball" -> Goto("Depends")
           [] stage = "Depends" -> Goto("Package")
           [] stage = "Package" -> Goto("Lint")
           [] stage = "Lint" -> Goto("Archive")
           [] stage = "Archive" -> Goto("Stop")
           [] stage = "Stop" -> Goto("Remove")
           [] stage = "Remove" -> Return(None)

\* a bug: the build goes on after the shell
runShellGoesOn(stage, err, c) ==
    IF err # None
    THEN IF stage = "Package" THEN Goto("Cleanup") ELSE Return(err)
    ELSE CASE stage = "Build" -> Goto("Create")
           [] stage = "Create" -> Goto("Start")
           [] stage = "Start" -> IF c.shell THEN Goto("Shell") ELSE Goto("Tarball")
           [] stage = "Shell" -> Goto("Tarball")
           [] stage = "Tarball" -> Goto("Depends")
           [] stage = "Depends" -> Goto("Package")
           [] stage = "Package" -> Goto("Lint")
           [] stage = "Lint" -> Goto("Archive")
           [] stage = "Archive" -> Goto("Stop")
           [] stage = "Stop" -> IF c.noRemove THEN Return(None) ELSE Goto("Remove")
           [] stage = "Remove" -> Return(None)

\* a bug: the container is removed after the failure of any stage
runCleanupOnAny(stage, err, c) ==
    IF err # None
    THEN Goto("Cleanup")
    ELSE CASE stage = "Build" -> Goto("Create")
           [] stage = "Create" -> Goto("Start")
           [] stage = "Start" -> IF c.shell THEN Goto("Shell") ELSE Goto("Tarball")
           [] stage = "Shell" -> Return(None)
           [] stage = "Tarball" -> Goto("Depends")
           [] stage = "Depends" -> Goto("Package")
           [] stage = "Package" -> Goto("Lint")
           [] stage = "Lint" -> Goto("Archive")
           [] stage = "Archive" -> Goto("Stop")
           [] stage = "Stop" -> IF c.noRemove THEN Return(None) ELSE Goto("Remove")
           [] stage = "Remove" -> Return(None)

\* what run does when the stage it called has returned err: the next stage to call,
\* or the value to return
run(stage, err, c) ==
    IF err # None
    THEN IF stage = "Package" THEN Goto("Cleanup") ELSE Return(err)
    ELSE CASE stage = "Build" -> Goto("Create")
           [] stage = "Create" -> Goto("Start")
           [] stage = "Start" -> IF c.shell THEN Goto("Shell") ELSE Goto("Tarball")
           [] stage = "Shell" -> Return(None)
           [] stage = "Tarball" -> Goto("Depends")
           [] stage = "Depends" -> Goto("Package")
           [] stage = "Package" -> Goto("Lint")
           [] stage = "Lint" -> Goto("Archive")
           [] stage = "Archive" -> Goto("Stop")
           [] stage = "Stop" -> IF c.noRemove THEN Return(None) ELSE Goto("Remove")
           [] stage = "Remove" -> Return(None)

\* a bug: the error of the removal replaces the error of Package
runCleanupMasks(err, errRemove) == IF errRemove # None THEN errRemove ELSE err

\* what run returns after the removal that follows a failed Package
runCleanup(err, errRemove) == err

(***************************************************************************)
(* The state machine                                                       *)
(***************************************************************************)
St == [dock |-> dock, fs |-> fs, calls |-> <<>>, race |-> None]
\* the same when somebody else acts on the container while the stage is at work
StRaced(race) == [St EXCEPT !.race = race]

\* the record of a stage that has returned; files is what it has logged file by file
Reported(stage, r) ==
    [stage |-> stage, outcome |-> r.outcome, err |-> r.err,
     files |-> IF "files" \in DOMAIN r THEN r.files ELSE <<>>]

Stamp(stage, cs) == [i \in 1..Len(cs) |-> [stage |-> stage, call |-> cs[i]]]

\* the stage has reported r; run goes on or returns
Advance(stage, r) ==
    /\ executed' = Append(executed, Reported(stage, r))
    /\ calls' = calls \o Stamp(stage, r.st.calls)
    /\ dock' = r.st.dock
    /\ fs' = r.st.fs
    /\ dockBefore' = dock
    /\ fsBefore' = fs
    /\ pc' = run(stage, r.err, cfg).pc
    /\ runErr' = run(stage, r.err, cfg).ret
    /\ UNCHANGED <<cfg, runs, prev, interfered, cmp, named, given, session>>

\* the calls a stage can see fail: any of those it issues when none fails
Faults(r) == 0..Len(r.st.calls)

HubStates == [{"debian", "ubuntu"} -> BOOLEAN]

RunBuild ==
    /\ pc = "Build"
    /\ \E hub \in HubStates :
         /\ dock.hub.seen => dock.hub.tags = hub
         /\ \E k \in Faults(Build(cfg, St, 0, hub)) : Advance("Build", Build(cfg, St, k, hub))

RunCreate ==
    /\ pc = "Create"
    /\ \E k \in Faults(Create(cfg, St, 0)) : Advance("Create", Create(cfg, St, k))

RunStart ==
    /\ pc = "Start"
    /\ \E k \in Faults(Start(cfg, St, 0)) : Advance("Start", Start(cfg, St, k))

RunShell ==
    /\ pc = "Shell"
    /\ \E k \in Faults(ShellOptional(cfg, St, 0, 0)), bad \in {0, 1} :
         Advance("Shell", ShellOptional(cfg, St, k, bad))

RunTarball ==
    /\ pc = "Tarball"
    /\ Advance("Tarball", TarballStage(cfg, St))

RunDepends ==
    /\ pc = "Depends"
    /\ \E k \in Faults(Depends(cfg, St, 0, 0)), bad \in 0..Len(DependsArgs(cfg)) :
         Advance("Depends", Depends(cfg, St, k, bad))

RunPackage ==
    /\ pc = "Package"
    /\ \E k \in Faults(Package(cfg, St, 0, 0)), bad \in {0, 1} :
         Advance("Package", Package(cfg, St, k, bad))

\* Package has failed: run calls Remove, prints its error and returns that of Package
RunCleanup ==
    /\ pc = "Cleanup"
    /\ \E k \in Faults(Remove(cfg, St, 0)) :
         LET r == Remove(cfg, St, k)
         IN  /\ executed' = Append(executed,
                    Reported("Remove", r))
             /\ calls' = calls \o Stamp("Remove", r.st.calls)
             /\ dock' = r.st.dock
             /\ fs' = r.st.fs
             /\ dockBefore' = dock
             /\ fsBefore' = fs
             /\ pc' = "done"
             /\ runErr' = runCleanup(executed[Len(executed)].err, r.err)
             /\ UNCHANGED <<cfg, runs, prev, interfered, cmp, named, given, session>>

RunLint ==
    /\ pc = "Lint"
    /\ \E k \in Faults(Lint(cfg, St, 0, 0)), bad \in 0..Len(LintArgs(cfg)) :
         Advance("Lint", Lint(cfg, St, k, bad))

RunArchive ==
    /\ pc = "Archive"
    /\ Advance("Archive", ArchiveStage(cfg, St))

RunStop ==
    /\ pc = "Stop"
    /\ \E k \in Faults(Stop(cfg, St, 0)) : Advance("Stop", Stop(cfg, St, k))

RunRemove ==
    /\ pc = "Remove"
    /\ \E k \in Faults(Remove(cfg, St, 0)) : Advance("Remove", Remove(cfg, St, k))

\* the stage that failed first in a finished invocation
FailedAt(ex) ==
    IF \E i \in 1..Len(ex) : ex[i].outcome = "Failed"
    THEN ex[CHOOSE i \in 1..Len(ex) :
                /\ ex[i].outcome = "Failed"
                /\ \A j \in 1..(i - 1) : ex[j].outcome # "Failed"].stage
    ELSE None

Min(a, b) == IF a < b THEN a ELSE b

\* the tool is invoked again with the same flags in the same directory, some time later
Rerun ==
    /\ pc = "done"
    /\ runs < MaxRuns
    /\ \E dt \in {0, 1} :
         dock' = IF dock.image.built
                 THEN [dock EXCEPT !.image.age = Min(@ + dt, MaxTicks)]
                 ELSE dock
    /\ prev' = [failedAt |-> FailedAt(executed),
                 imageYoung |-> dock'.image.built /\ dock'.image.age < cfg.maxAge]
    /\ runs' = runs + 1
    /\ pc' = "Build"
    /\ executed' = <<>>
    /\ calls' = <<>>
    /\ runErr' = "running"
    /\ dockBefore' = dock'
    /\ fsBefore' = fs
    /\ UNCHANGED <<cfg, fs, interfered, cmp, named, given, session>>

\* somebody else stops or removes the container between two stages
External ==
    /\ pc \notin {"done", "Build", "idle"}
    /\ interfered < MaxExternal
    /\ \/ /\ dock.state = ContainerStateRunning
          /\ dock' = [dock EXCEPT !.state = "exited"]
       \/ /\ dock.state \notin {"absent", ContainerStateRunning}
          /\ dock' = [dock EXCEPT !.state = "absent", !.mounts = <<>>,
                                  !.deps = FALSE, !.net = FALSE, !.base = None]
    /\ interfered' = interfered + 1
    /\ UNCHANGED <<cfg, fs, pc, executed, calls, runErr, fsBefore, dockBefore, runs,
                   prev, cmp, named, given, session>>

(***************************************************************************)
(* Initial states                                                          *)
(***************************************************************************)
NoInput == [k |-> 0, bad |-> 0, race |-> None, from |-> 0]
NoSession ==
    [tty |-> FALSE, exec |-> "none", watcher |-> "none", process |-> "running", resizes |-> 0]
NoNaming == [args |-> <<>>, out |-> <<>>]
NoCmp == [a |-> <<>>, b |-> <<>>, ab |-> <<>>, ba |-> <<>>]
NoPrev == [failedAt |-> None, imageYoung |-> FALSE]

EmptyDir == [x \in FileNames |-> Absent]
Disk(parent, build, store, elsewhere, buildDev) ==
    [files |-> [d \in Dirs |-> CASE d = "parent" -> parent
                                 [] d = "build" -> build
                                 [] d = "store" -> store
                                 [] d = "elsewhere" -> elsewhere],
     dev |-> [d \in Dirs |-> IF d \in {"build", "store"} THEN buildDev ELSE "home"],
     dirs |-> HostDirs]

\* the host files before Create has been called for the first time
FirstRun(disk) == [disk EXCEPT !.dirs = {}]

With(dir, name, e) == [dir EXCEPT ![name] = e]

\* the package lists --package can give
PackageLists ==
    {<<>>, <<"debs">>, <<"debs", "a.deb">>, <<"debs", "debs">>, <<"notes.txt">>}

Config(shell, noRemove, lintian, packages, version) ==
    [shell |-> shell, noRemove |-> noRemove, lintian |-> lintian, network |-> FALSE,
     noTest |-> TRUE, packages |-> packages, version |-> version, upstream |-> "1.0",
     maxAge |-> MaxTicks, dpkgFlags |-> "-b -uc -tc", lintianFlags |-> "-i -I"]

Configs ==
    {Config(sh, nr, li, p, v) :
        sh \in BOOLEAN, nr \in BOOLEAN, li \in BOOLEAN, p \in PackageLists,
        v \in {"1.0-1", "1.0"}}

NoImage == [built |-> FALSE, age |-> 0, from |-> None]
Images == {NoImage} \cup {[built |-> TRUE, age |-> a, from |-> "debian"] : a \in {0, MaxTicks}}

\* the mount lists a container left by an earlier invocation can have
OldMounts ==
    {BaseMounts,
     BaseMounts \o <<Mount("a.deb", "/archive/a.deb", TRUE), Mount("debs", "/archive/debs", TRUE)>>}

Engine(image, state, mounts) ==
    [image |-> image, state |-> state, mounts |-> mounts, net |-> state # "absent",
     base |-> IF state = "absent" THEN None ELSE "current",
     deps |-> FALSE, hub |-> [seen |-> FALSE, tags |-> [r \in {"debian", "ubuntu"} |-> FALSE]]]

Engines ==
    {Engine(i, "absent", <<>>) : i \in Images}
    \cup {Engine(i, s, m) : i \in Images \ {NoImage}, s \in ContainerStates \ {"absent"},
                            m \in OldMounts}

\* the host directories at the first invocation of a pipeline
PipelineDisks ==
    { Disk(With(EmptyDir, TarGz, File("orig", "0644")), EmptyDir, EmptyDir, EmptyDir, "home"),
      Disk(EmptyDir, EmptyDir, EmptyDir, EmptyDir, "home"),
      Disk(With(EmptyDir, TarGz, Link("elsewhere", RealGz)), EmptyDir, EmptyDir,
           With(EmptyDir, RealGz, File("orig", "0644")), "home"),
      Disk(With(EmptyDir, TarGz, File("orig", "0644")), EmptyDir,
           With(EmptyDir, Deb, Directory("empty")), EmptyDir, "home") }

\* everything but the inputs, at the start of the first invocation
Fresh ==
    /\ pc = "Build"
    /\ executed = <<>>
    /\ calls = <<>>
    /\ runErr = "running"
    /\ fsBefore = fs
    /\ dockBefore = dock
    /\ runs = 1
    /\ prev = NoPrev
    /\ interfered = 0
    /\ cmp = NoCmp
    /\ named = NoNaming
    /\ given = NoInput
    /\ session = NoSession

NativeDisk == Disk(EmptyDir, EmptyDir, EmptyDir, EmptyDir, "home")

Init ==
    /\ cfg \in Configs
    /\ dock \in Engines
    /\ fs \in {IF dock.state = "absent" THEN FirstRun(d) ELSE d :
                  d \in IF cfg.version = cfg.upstream THEN {NativeDisk} ELSE PipelineDisks}
    /\ Fresh

\* the inputs of the invocations that are repeated
InitRerun ==
    /\ cfg \in {Config(sh, nr, TRUE, p, "1.0-1") :
                  sh \in BOOLEAN, nr \in BOOLEAN, p \in {<<>>, <<"debs", "a.deb">>}}
    /\ dock \in {Engine(NoImage, "absent", <<>>)}
                \cup {Engine([built |-> TRUE, age |-> 0, from |-> "debian"],
                             ContainerStateRunning, m) : m \in OldMounts}
    /\ fs \in {IF dock.state = "absent" THEN FirstRun(d) ELSE d : d \in PipelineDisks}
    /\ Fresh

Next ==
    \/ RunBuild
    \/ RunCreate
    \/ RunStart
    \/ RunShell
    \/ RunTarball
    \/ RunDepends
    \/ RunPackage
    \/ RunCleanup
    \/ RunLint
    \/ RunArchive
    \/ RunStop
    \/ RunRemove
    \/ External

Spec == Init /\ [][Next]_vars

NextRerun == Next \/ Rerun
SpecRerun == InitRerun /\ [][NextRerun]_vars

(***************************************************************************)
(* CompareMounts on its own                                                *)
(***************************************************************************)
MountUniverse ==
    {BaseMounts[1], Mount("debs", "/archive/debs", TRUE), Mount("a.deb", "/archive/a.deb", TRUE)}

MountLists == UNION {[1..n -> MountUniverse] : n \in 0..MaxMountLen}

\* everything but the inputs, where no pipeline runs
Idle ==
    /\ pc = "idle"
    /\ executed = <<>>
    /\ calls = <<>>
    /\ runErr = "running"
    /\ fsBefore = fs
    /\ dockBefore = dock
    /\ runs = 0
    /\ prev = NoPrev
    /\ interfered = 0

InitMounts ==
    /\ cmp \in {[a |-> a, b |-> b, ab |-> <<>>, ba |-> <<>>] : a, b \in MountLists}
    /\ named = NoNaming
    /\ given = NoInput
    /\ session = NoSession
    /\ cfg = Config(FALSE, FALSE, FALSE, <<>>, "1.0-1")
    /\ dock = Engine(NoImage, "absent", <<>>)
    /\ fs = NativeDisk
    /\ Idle

\* util.CompareMounts(a, b), as Create calls it with a the mounts of the container
Compare ==
    /\ cmp.ab = <<>>
    /\ cmp' = [cmp EXCEPT !.ab = <<CompareMounts(cmp.a, cmp.b)>>]
    /\ UNCHANGED <<cfg, dock, fs, pc, executed, calls, runErr, fsBefore, dockBefore,
                   runs, prev, interfered, named, given, session>>

\* util.CompareMounts(b, a)
CompareSwapped ==
    /\ cmp.ba = <<>>
    /\ cmp' = [cmp EXCEPT !.ba = <<CompareMounts(cmp.b, cmp.a)>>]
    /\ UNCHANGED <<cfg, dock, fs, pc, executed, calls, runErr, fsBefore, dockBefore,
                   runs, prev, interfered, named, given, session>>

NextMounts == Compare \/ CompareSwapped

SpecMounts == InitMounts /\ [][NextMounts]_vars

(***************************************************************************)
(* Tarball on its own                                                      *)
(***************************************************************************)
\* what the source parent directory can hold
ParentDirs ==
    {[x \in FileNames |->
        CASE x = TarGz -> gz [] x = TarXz -> xz [] x = TarAsc -> asc [] x = RealGz -> real
          [] OTHER -> Absent] :
        gz \in {Absent, File("orig", "0644"), Link("elsewhere", RealGz), Link("parent", RealGz)},
        xz \in {Absent, File("orig-xz", "0644")},
        asc \in {Absent, File("sig", "0644")},
        real \in {Absent, File("orig", "0644")}}

\* what the build directory can hold before Tarball is called
BuildDirs ==
    {[x \in FileNames |->
        CASE x = TarGz -> gz [] x = TarXz -> xz [] x = TarAsc -> asc [] OTHER -> Absent] :
        gz \in {Absent, File("stale", "0644"), Directory("full")},
        xz \in {Absent, File("stale-xz", "0644")},
        asc \in {Absent, File("sig", "0644")}}

ElsewhereDirs == {EmptyDir, With(EmptyDir, RealGz, File("orig", "0644"))}

InitTarball ==
    /\ cfg \in {Config(FALSE, FALSE, FALSE, <<>>, v) : v \in {"1.0-1", "1.0"}}
    /\ fs \in {Disk(p, b, EmptyDir, e, dev) :
                 p \in ParentDirs, b \in BuildDirs, e \in ElsewhereDirs,
                 dev \in {"home", "tmp"}}
    /\ dock = Engine(NoImage, "absent", <<>>)
    /\ cmp = NoCmp
    /\ named = NoNaming
    /\ given = NoInput
    /\ session = NoSession
    /\ pc = "idle"
    /\ executed = <<>>
    /\ calls = <<>>
    /\ runErr = "running"
    /\ fsBefore = fs
    /\ dockBefore = dock
    /\ runs = 0
    /\ prev = NoPrev
    /\ interfered = 0

\* steps.Tarball(n), called on the directories as they are
CallTarball ==
    /\ pc = "idle"
    /\ Len(executed) < MaxTarballCalls
    /\ LET r == Tarball(cfg, fs)
       IN  /\ executed' = Append(executed,
                  Reported("Tarball", r))
           /\ fs' = r.fs
           /\ fsBefore' = fs
    /\ UNCHANGED <<cfg, dock, pc, calls, runErr, dockBefore, runs, prev, interfered, cmp, named, given, session>>

NextTarball == CallTarball

SpecTarball == InitTarball /\ [][NextTarball]_vars

(***************************************************************************)
(* Archive on its own                                                      *)
(***************************************************************************)
\* what the build directory can hold when Archive is called
ArchiveBuildDirs ==
    {[x \in FileNames |->
        CASE x = Deb -> deb [] x = TarGz -> gz [] x = TarAsc -> asc [] OTHER -> Absent] :
        deb \in {Absent, File("deb", "0644"), File("deb", "0755")},
        gz \in {Absent, File("orig", "0644"), Link("elsewhere", RealGz), Directory("full")},
        asc \in {Absent, File("sig", "0644")}}

\* what the directory of the package store can hold from earlier builds
ArchiveStoreDirs ==
    {[x \in FileNames |->
        CASE x = Deb -> deb [] x = TarGz -> gz [] x = TarAsc -> asc [] OTHER -> Absent] :
        deb \in {Absent, File("deb", "0600"), File("old", "0600"), File("deb-twin", "0600"),
                 Directory("empty")},
        gz \in {Absent, File("orig", "0644"), Link("elsewhere", RealGz)},
        asc \in {Absent, Link("elsewhere", RealGz)}}

InitArchive ==
    /\ cfg = Config(FALSE, FALSE, FALSE, <<>>, "1.0-1")
    /\ fs \in {Disk(EmptyDir, b, st, With(EmptyDir, RealGz, e), "home") :
                 b \in ArchiveBuildDirs, st \in ArchiveStoreDirs,
                 e \in {Absent, File("orig", "0644"), File("old", "0644")}}
    /\ dock = Engine(NoImage, "absent", <<>>)
    /\ cmp = NoCmp
    /\ named = NoNaming
    /\ given = NoInput
    /\ session = NoSession
    /\ Idle

\* steps.Archive(n), called on the directories as they are
CallArchive ==
    /\ pc = "idle"
    /\ Len(executed) < MaxArchiveCalls
    /\ LET r == ArchiveStage(cfg, St)
       IN  /\ executed' = Append(executed, Reported("Archive", r))
           /\ fs' = r.st.fs
           /\ fsBefore' = fs
    /\ UNCHANGED <<cfg, dock, pc, calls, runErr, dockBefore, runs, prev, interfered, cmp, named, given, session>>

NextArchive == CallArchive

SpecArchive == InitArchive /\ [][NextArchive]_vars

(***************************************************************************)
(* pkg/naming: strings are sequences of characters                         *)
(***************************************************************************)
Deber == <<"d", "e", "b", "e", "r">>
Unreleased == <<"U", "N", "R", "E", "L", "E", "A", "S", "E", "D">>
Unstable == <<"u", "n", "s", "t", "a", "b", "l", "e">>
Backports == <<"b", "a", "c", "k", "p", "o", "r", "t", "s">>
Bpo == <<"b", "p", "o">>

\* strings.Contains
StringsContains(s, sub) ==
    \E i \in 0..(Len(s) - Len(sub)) : SubSeq(s, i + 1, i + Len(sub)) = sub

\* strings.ReplaceAll: the occurrences of old, from the left, none overlapping another
RECURSIVE ReplaceAll(_, _, _)
ReplaceAll(s, old, new) ==
    IF s = <<>> THEN <<>>
    ELSE IF HasPrefix(s, old)
         THEN new \o ReplaceAll(SubSeq(s, Len(old) + 1, Len(s)), old, new)
         ELSE <<Head(s)>> \o ReplaceAll(Tail(s), old, new)

RECURSIVE SplitFrom(_, _, _)
SplitFrom(s, sep, piece) ==
    IF s = <<>> THEN <<piece>>
    ELSE IF HasPrefix(s, sep)
         THEN <<piece>> \o SplitFrom(SubSeq(s, Len(sep) + 1, Len(s)), sep, <<>>)
         ELSE SplitFrom(Tail(s), sep, Append(piece, Head(s)))
\* strings.Split: the pieces between the separators, the empty ones too
Split(s, sep) == SplitFrom(s, sep, <<>>)

RECURSIVE StringsJoin(_, _)
\* strings.Join
StringsJoin(elems, sep) ==
    IF elems = <<>> THEN <<>>
    ELSE IF Len(elems) = 1 THEN elems[1]
         ELSE elems[1] \o sep \o StringsJoin(Tail(elems), sep)

RECURSIVE CleanFrom(_, _, _)
CleanFrom(comps, kept, rooted) ==
    IF comps = <<>> THEN kept
    ELSE LET c == Head(comps)
         IN  IF c = <<>> \/ c = <<".">> THEN CleanFrom(Tail(comps), kept, rooted)
             ELSE IF c # <<".", ".">> THEN CleanFrom(Tail(comps), Append(kept, c), rooted)
             ELSE IF kept # <<>> /\ kept[Len(kept)] # <<".", ".">>
                  THEN CleanFrom(Tail(comps), SubSeq(kept, 1, Len(kept) - 1), rooted)
             ELSE IF rooted THEN CleanFrom(Tail(comps), kept, rooted)
             ELSE CleanFrom(Tail(comps), Append(kept, c), rooted)
\* filepath.Clean: no empty and no "." element, ".." takes the element before it away
Clean(path) ==
    LET rooted == path # <<>> /\ path[1] = "/"
        body == StringsJoin(CleanFrom(Split(path, <<"/">>), <<>>, rooted), <<"/">>)
    IN  IF rooted THEN <<"/">> \o body
        ELSE IF body = <<>> THEN <<".">> ELSE body

\* filepath.Join: the empty elements are left out and the result is cleaned
Join(elems) ==
    LET full == SelectSeq(elems, LAMBDA e : e # <<>>)
    IN  IF full = <<>> THEN <<>> ELSE Clean(StringsJoin(full, <<"/">>))

\* filepath.Dir: the path up to its last separator, cleaned
Dir(path) ==
    LET seps == {i \in 1..Len(path) : path[i] = "/"}
        last == IF seps = {} THEN 0 ELSE CHOOSE i \in seps : \A j \in seps : j <= i
    IN  Clean(SubSeq(path, 1, last))

standardizeVersion(version) ==
    ReplaceAll(ReplaceAll(ReplaceAll(version, <<"~">>, <<"-">>), <<":">>, <<"-">>),
               <<"+">>, <<"-">>)

\* a bug: the suffix is appended whatever the version is
standardizeTargetAlwaysBackports(version, target) ==
    Split(ReplaceAll(target, Unreleased, Unstable), <<"-">>)[1] \o <<"-">> \o Backports

standardizeTarget(version, target) ==
    LET first == Split(ReplaceAll(target, Unreleased, Unstable), <<"-">>)[1]
    IN  IF StringsContains(version, Bpo) THEN first \o <<"-">> \o Backports ELSE first

New(a) ==
    LET args == [a EXCEPT !.Target = standardizeTarget(a.Version, a.Target)]
        version == standardizeVersion(args.Version)
        image == args.Prefix \o <<":">> \o args.Target
        container == args.Prefix \o <<"_">> \o args.Target \o <<"_">> \o args.Source
                     \o <<"_">> \o version
    IN  [Args |-> args,
         Container |-> container,
         Image |-> image,
         SourceDir |-> args.SourceBaseDir,
         SourceParentDir |-> Dir(args.SourceBaseDir),
         BuildDir |-> Join(<<args.BuildBaseDir, container>>),
         CacheDir |-> Join(<<args.CacheBaseDir, image>>),
         PackagesDir |-> args.PackagesBaseDir,
         PackagesTargetDir |-> Join(<<args.PackagesBaseDir, args.Target>>),
         PackagesSourceDir |-> Join(<<args.PackagesBaseDir, args.Target, args.Source>>),
         PackagesVersionDir |->
             Join(<<args.PackagesBaseDir, args.Target, args.Source, args.Version>>)]

(***************************************************************************)
(* naming.New on its own                                                   *)
(***************************************************************************)
VersionChars == {"1", "~", ":", "+", "b", "p", "o"}
\* the version strings: the short ones over VersionChars and some of Debian's
Versions ==
    UNION {[1..n -> VersionChars] : n \in 1..MaxVersionLen}
    \cup {<<"1", ".", "0", "~", "r", "c", "1", "+", "d", "e", "b", "1", "1", "u", "1", ":", "2">>,
          <<"1", ".", "0", "-", "1", "~", "b", "p", "o", "1", "2", "+", "1">>,
          <<"2", ":", "1", ".", "0", "-", "1">>}
Targets ==
    {Unreleased, Unstable,
     <<"b", "o", "o", "k", "w", "o", "r", "m">>,
     <<"b", "o", "o", "k", "w", "o", "r", "m", "-", "s", "e", "c", "u", "r", "i", "t", "y">>,
     <<"b", "o", "o", "k", "w", "o", "r", "m", "-", "b", "a", "c", "k", "p", "o", "r", "t", "s">>,
     <<"a", "-", "b", "-", "c">>}
Sources == {<<"p", "k", "g">>, <<"m", "e", "m", "t", "e", "s", "t", "8", "6", "+">>}

InitNaming ==
    \* Upstream is the version in front of its revision; New does not read it
    /\ named \in {[args |-> [Prefix |-> Deber, Source |-> s, Version |-> v,
                             Upstream |-> Split(v, <<"-">>)[1], Target |-> t,
                             SourceBaseDir |-> <<"/", "w", "/">> \o s,
                             BuildBaseDir |-> <<"/", "t", "/", "b", "u", "i", "l", "d">>,
                             CacheBaseDir |-> <<"/", "t", "/", "c", "a", "c", "h", "e">>,
                             PackagesBaseDir |-> <<"/", "t", "/", "p", "a", "c", "k", "a", "g", "e", "s">>],
                   out |-> <<>>] : s \in Sources, v \in Versions, t \in Targets}
    /\ cmp = NoCmp
    /\ given = NoInput
    /\ session = NoSession
    /\ cfg = Config(FALSE, FALSE, FALSE, <<>>, "1.0-1")
    /\ dock = Engine(NoImage, "absent", <<>>)
    /\ fs = NativeDisk
    /\ Idle

\* n := naming.New(namingArgs) (main.go:126-137)
Derive ==
    /\ named.out = <<>>
    /\ named' = [named EXCEPT !.out = <<New(named.args)>>]
    /\ UNCHANGED <<cfg, dock, fs, pc, executed, calls, runErr, fsBefore, dockBefore,
                   runs, prev, interfered, cmp, given, session>>

NextNaming == Derive

SpecNaming == InitNaming /\ [][NextNaming]_vars

(***************************************************************************)
(* Start, Stop and Remove on their own, on a container in any state        *)
(***************************************************************************)
InitStates ==
    /\ cfg = Config(FALSE, FALSE, FALSE, <<>>, "1.0-1")
    /\ dock \in {Engine(i, "absent", <<>>) : i \in Images}
                \cup {Engine(i, s, m) : i \in Images, s \in LifecycleStates \ {"absent"},
                                        m \in OldMounts}
    /\ fs = NativeDisk
    /\ cmp = NoCmp
    /\ named = NoNaming
    /\ given = NoInput
    /\ session = NoSession
    /\ Idle

\* a stage called on the container as it is; the engine fails its k-th call
CallStage(stage, r) ==
    /\ pc = "idle"
    /\ Len(executed) < MaxStateCalls
    /\ executed' = Append(executed, Reported(stage, r))
    /\ calls' = calls \o Stamp(stage, r.st.calls)
    /\ dock' = r.st.dock
    /\ dockBefore' = dock
    /\ UNCHANGED <<cfg, fs, pc, runErr, fsBefore, runs, prev, interfered, cmp, named, given, session>>

CallStart == \E k \in Faults(Start(cfg, St, 0)) : CallStage("Start", Start(cfg, St, k))
CallStop == \E k \in Faults(Stop(cfg, St, 0)) : CallStage("Stop", Stop(cfg, St, k))
CallRemove == \E k \in Faults(Remove(cfg, St, 0)) : CallStage("Remove", Remove(cfg, St, k))

NextStates == CallStart \/ CallStop \/ CallRemove

SpecStates == InitStates /\ [][NextStates]_vars

(***************************************************************************)
(* Shell, Depends, Package and Lint on their own, under every flag         *)
(***************************************************************************)
\* the flags --network, --no-test, --lintian and --package
Flags(network, noTest, lintian, packages) ==
    [Config(FALSE, FALSE, lintian, packages, "1.0-1")
        EXCEPT !.network = network, !.noTest = noTest]

InitExec ==
    /\ cfg \in {Flags(nw, nt, li, p) :
                  nw \in BOOLEAN, nt \in BOOLEAN, li \in BOOLEAN, p \in {<<>>, <<"debs">>}}
    /\ dock \in {Engine([built |-> TRUE, age |-> 0, from |-> "debian"], s, BaseMounts) :
                  s \in {ContainerStateRunning, "exited"}}
                \cup {Engine(NoImage, "absent", <<>>)}
    /\ fs = NativeDisk
    /\ cmp = NoCmp
    /\ named = NoNaming
    /\ given = NoInput
    /\ session = NoSession
    /\ Idle

\* a stage that executes commands, called on the container as it is: the engine fails
\* its k-th call, the bad-th command exits with a non-zero status
CallExec(stage, r, k, bad) ==
    /\ pc = "idle"
    /\ Len(executed) < MaxExecCalls
    /\ executed' = Append(executed, Reported(stage, r))
    /\ calls' = calls \o Stamp(stage, r.st.calls)
    /\ dock' = r.st.dock
    /\ fs' = r.st.fs
    /\ dockBefore' = dock
    /\ fsBefore' = fs
    /\ given' = [k |-> k, bad |-> bad, race |-> None, from |-> Len(calls)]
    /\ UNCHANGED <<cfg, pc, runErr, runs, prev, interfered, cmp, named, session>>

CallShell ==
    \E k \in Faults(ShellOptional(cfg, St, 0, 0)), bad \in {0, 1} :
        CallExec("Shell", ShellOptional(cfg, St, k, bad), k, bad)
CallDepends ==
    \E k \in Faults(Depends(cfg, St, 0, 0)), bad \in 0..Len(DependsArgs(cfg)) :
        CallExec("Depends", Depends(cfg, St, k, bad), k, bad)
CallPackage ==
    \E k \in Faults(Package(cfg, St, 0, 0)), bad \in {0, 1} :
        CallExec("Package", Package(cfg, St, k, bad), k, bad)
CallLint ==
    \E k \in Faults(Lint(cfg, St, 0, 0)), bad \in 0..Len(LintArgs(cfg)) :
        CallExec("Lint", Lint(cfg, St, k, bad), k, bad)

NextExec == CallShell \/ CallDepends \/ CallPackage \/ CallLint

SpecExec == InitExec /\ [][NextExec]_vars

(***************************************************************************)
(* Create on its own, under every list of extra packages                   *)
(***************************************************************************)
InitCreate ==
    /\ cfg \in {Config(FALSE, FALSE, FALSE, p, "1.0-1") :
                  p \in UNION {[1..n -> ExtraPaths] : n \in 0..MaxPackages}}
    /\ dock \in {Engine(i, "absent", <<>>) : i \in Images}
                \cup {Engine([built |-> TRUE, age |-> 0, from |-> "debian"], s, m) :
                        s \in {ContainerStateRunning, "exited"}, m \in OldMounts}
    /\ fs = IF dock.state = "absent" THEN FirstRun(NativeDisk) ELSE NativeDisk
    /\ cmp = NoCmp
    /\ named = NoNaming
    /\ given = NoInput
    /\ session = NoSession
    /\ Idle

\* steps.Create(dock, n, *packages); the engine fails its k-th call
CallCreate ==
    /\ pc = "idle"
    /\ executed = <<>>
    /\ \E k \in Faults(Create(cfg, St, 0)) :
         LET r == Create(cfg, St, k)
         IN  /\ executed' = Append(executed, Reported("Create", r))
             /\ calls' = calls \o Stamp("Create", r.st.calls)
             /\ dock' = r.st.dock
             /\ fs' = r.st.fs
             /\ given' = [k |-> k, bad |-> 0, race |-> None, from |-> Len(calls)]
    /\ dockBefore' = dock
    /\ fsBefore' = fs
    /\ UNCHANGED <<cfg, pc, runErr, runs, prev, interfered, cmp, named, session>>

NextCreate == CallCreate

SpecCreate == InitCreate /\ [][NextCreate]_vars

(***************************************************************************)
(* Start, Stop and Remove as run calls them, with somebody else acting on  *)
(* the container between the state query and the call that follows it      *)
(***************************************************************************)
\* Package as it has failed before run calls Remove
PackageFailed == [stage |-> "Package", outcome |-> "Failed", err |-> ErrNonZero, files |-> <<>>]

InitRace ==
    /\ cfg \in {Config(FALSE, nr, FALSE, <<>>, "1.0") : nr \in BOOLEAN}
    /\ dock \in {Engine([built |-> TRUE, age |-> 0, from |-> "debian"], s, BaseMounts) :
                  s \in ContainerStates \ {"absent"}}
                \cup {Engine([built |-> TRUE, age |-> 0, from |-> "debian"], "absent", <<>>)}
    /\ fs = NativeDisk
    /\ pc \in {"Start", "Stop", "Remove", "Cleanup"}
    /\ executed = IF pc = "Cleanup" THEN <<PackageFailed>> ELSE <<>>
    /\ calls = <<>>
    /\ runErr = "running"
    /\ fsBefore = fs
    /\ dockBefore = dock
    /\ runs = 1
    /\ prev = NoPrev
    /\ interfered = 0
    /\ cmp = NoCmp
    /\ named = NoNaming
    /\ given = NoInput
    /\ session = NoSession

\* run calls the stage it has come to; the engine fails the k-th call of the stage and
\* race happens after its state query
Raced(stage, r, k, race) ==
    /\ race # None => interfered < MaxRaces
    /\ executed' = Append(executed, Reported(stage, r))
    /\ calls' = calls \o Stamp(stage, r.st.calls)
    /\ dock' = r.st.dock
    /\ dockBefore' = dock
    /\ given' = [k |-> k, bad |-> 0, race |-> race, from |-> Len(calls)]
    /\ interfered' = IF race # None THEN interfered + 1 ELSE interfered
    /\ UNCHANGED <<cfg, fs, fsBefore, runs, prev, cmp, named, session>>

RaceStart ==
    /\ pc = "Start"
    /\ \E race \in Races : \E k \in Faults(Start(cfg, StRaced(race), 0)) :
         LET r == Start(cfg, StRaced(race), k)
         IN  /\ Raced("Start", r, k, race)
             /\ pc' = run("Start", r.err, cfg).pc
             /\ runErr' = run("Start", r.err, cfg).ret

RaceStop ==
    /\ pc = "Stop"
    /\ \E race \in Races : \E k \in Faults(Stop(cfg, StRaced(race), 0)) :
         LET r == Stop(cfg, StRaced(race), k)
         IN  /\ Raced("Stop", r, k, race)
             /\ pc' = run("Stop", r.err, cfg).pc
             /\ runErr' = run("Stop", r.err, cfg).ret

RaceRemove ==
    /\ pc = "Remove"
    /\ \E race \in Races : \E k \in Faults(Remove(cfg, StRaced(race), 0)) :
         LET r == Remove(cfg, StRaced(race), k)
         IN  /\ Raced("Remove", r, k, race)
             /\ pc' = run("Remove", r.err, cfg).pc
             /\ runErr' = run("Remove", r.err, cfg).ret

\* the Remove that follows a failed Package
RaceCleanup ==
    /\ pc = "Cleanup"
    /\ \E race \in Races : \E k \in Faults(Remove(cfg, StRaced(race), 0)) :
         LET r == Remove(cfg, StRaced(race), k)
         IN  /\ Raced("Remove", r, k, race)
             /\ pc' = "done"
             /\ runErr' = runCleanup(executed[Len(executed)].err, r.err)

NextRace == RaceStart \/ RaceStop \/ RaceRemove \/ RaceCleanup

SpecRace == InitRace /\ [][NextRace]_vars

(***************************************************************************)
(* The interactive session of ShellOptional, step by step: the main        *)
(* goroutine attaches, copies the output until the session ends, returns   *)
(* and leaves the program; resizeIfChanged runs beside it                  *)
(***************************************************************************)
InitShell ==
    /\ cfg \in {[Config(TRUE, nr, li, <<>>, "1.0-1") EXCEPT !.network = nw] :
                  nr \in BOOLEAN, li \in BOOLEAN, nw \in BOOLEAN}
    /\ dock \in {[Engine([built |-> TRUE, age |-> 0, from |-> "debian"], s, BaseMounts)
                     EXCEPT !.net = n] :
                   s \in {ContainerStateRunning, "exited"}, n \in BOOLEAN}
    /\ fs = NativeDisk
    /\ pc = "Shell"
    /\ executed = <<>>
    /\ calls = <<>>
    /\ runErr = "running"
    /\ fsBefore = fs
    /\ dockBefore = dock
    /\ runs = 1
    /\ prev = NoPrev
    /\ interfered = 0
    /\ cmp = NoCmp
    /\ named = NoNaming
    /\ given = NoInput
    /\ session \in {[NoSession EXCEPT !.tty = t] : t \in BOOLEAN}

\* ContainerExec up to line 338: the network, ExecCreate and ExecAttach, then with a
\* terminal the raw mode, the first resize and the two goroutines. A failure returns
\* through ShellOptional and run at once.
ExecAttach ==
    /\ pc = "Shell"
    /\ session.exec = "none"
    /\ \E k \in Faults(ShellOptional(cfg, St, 0, 0)), raw \in TerminalSteps :
         LET e == ExecAttached(ContainerExec(St, ExecArgs("", TRUE, TRUE, FALSE, TRUE), k, 0),
                               session.tty, raw)
             r == IF e.err # None THEN SR("Failed", e.err, e.st) ELSE SR("Done", None, e.st)
         IN  /\ calls' = calls \o Stamp("Shell", r.st.calls)
             /\ dock' = r.st.dock
             /\ dockBefore' = dock
             /\ given' = [k |-> k, bad |-> 0, race |-> None, from |-> Len(calls)]
             /\ IF r.err # None
                THEN /\ executed' = Append(executed, Reported("Shell", r))
                     /\ pc' = run("Shell", r.err, cfg).pc
                     /\ runErr' = run("Shell", r.err, cfg).ret
                     /\ UNCHANGED session
                ELSE /\ session' = [session EXCEPT
                                      !.exec = "attached",
                                      !.watcher = IF session.tty THEN "waiting" ELSE "none"]
                     /\ UNCHANGED <<executed, pc, runErr>>
    /\ UNCHANGED <<cfg, fs, fsBefore, runs, prev, interfered, cmp, named>>

\* the size of the terminal changes: resizeIfChanged takes the signal and calls
\* ContainerExecResize
resizeIfChanged ==
    /\ session.watcher = "waiting"
    /\ session.process = "running"
    /\ session.resizes < MaxResizes
    /\ LET r == ContainerExecResize(St, session)
       IN  /\ dock' = r.st.dock
           /\ fs' = r.st.fs
           /\ calls' = calls \o Stamp("Shell", r.st.calls)
    /\ session' = [session EXCEPT !.resizes = @ + 1]
    /\ UNCHANGED <<cfg, pc, executed, runErr, fsBefore, dockBefore, runs, prev, interfered,
                   cmp, named, given>>

\* the output of the session ends (the shell is left, or the connection is closed):
\* io.Copy of line 340 returns
SessionEnds ==
    /\ session.exec = "attached"
    /\ session' = [session EXCEPT !.exec = "ended"]
    /\ UNCHANGED <<cfg, dock, fs, pc, executed, calls, runErr, fsBefore, dockBefore, runs,
                   prev, interfered, cmp, named, given>>

\* ContainerExec returns nil without a look at the exit status, ShellOptional Done,
\* and run what ShellOptional has returned
ShellReturns ==
    /\ pc = "Shell"
    /\ session.exec = "ended"
    /\ executed' = Append(executed, Reported("Shell", SR("Done", None, St)))
    /\ pc' = run("Shell", None, cfg).pc
    /\ runErr' = run("Shell", None, cfg).ret
    /\ UNCHANGED <<cfg, dock, fs, calls, fsBefore, dockBefore, runs, prev, interfered, cmp,
                   named, given, session>>

\* a bug: main waits for the goroutines it has left behind
mainWaits ==
    /\ pc = "done"
    /\ session.process = "running"
    /\ session.watcher # "waiting"
    /\ session' = [session EXCEPT !.process = "exited"]
    /\ UNCHANGED <<cfg, dock, fs, pc, executed, calls, runErr, fsBefore, dockBefore, runs,
                   prev, interfered, cmp, named, given>>

\* run has returned: main returns or calls os.Exit, and the goroutines end with the
\* program
main ==
    /\ pc = "done"
    /\ session.process = "running"
    /\ session' = [session EXCEPT
                     !.process = "exited",
                     !.watcher = IF @ = "waiting" THEN "gone" ELSE @]
    /\ UNCHANGED <<cfg, dock, fs, pc, executed, calls, runErr, fsBefore, dockBefore, runs,
                   prev, interfered, cmp, named, given>>

NextShell == ExecAttach \/ resizeIfChanged \/ SessionEnds \/ ShellReturns \/ main

\* the main goroutine runs on from the end of the session without waiting for anything
SpecShell ==
    InitShell /\ [][NextShell]_vars /\ WF_vars(ShellReturns) /\ WF_vars(main)

(***************************************************************************)
(* run from Depends to Lint under every setting of the flags               *)
(***************************************************************************)
InitNetwork ==
    /\ cfg \in {Flags(nw, nt, li, p) :
                  nw \in BOOLEAN, nt \in BOOLEAN, li \in BOOLEAN, p \in {<<>>, <<"debs">>}}
    /\ dock \in {[Engine([built |-> TRUE, age |-> 0, from |-> "debian"], s, BaseMounts)
                     EXCEPT !.net = n] :
                   s \in {ContainerStateRunning, "exited"}, n \in BOOLEAN}
    /\ fs = NativeDisk
    /\ pc = "Depends"
    /\ executed = <<>>
    /\ calls = <<>>
    /\ runErr = "running"
    /\ fsBefore = fs
    /\ dockBefore = dock
    /\ runs = 1
    /\ prev = NoPrev
    /\ interfered = 0
    /\ cmp = NoCmp
    /\ named = NoNaming
    /\ given = NoInput
    /\ session = NoSession

NextNetwork == RunDepends \/ RunPackage \/ RunCleanup \/ RunLint

SpecNetwork == InitNetwork /\ [][NextNetwork]_vars

(***************************************************************************)
(* Properties of naming.New (checked under SpecNaming)                     *)
(***************************************************************************)
HasChar(s, c) == \E i \in 1..Len(s) : s[i] = c
\* the characters of a Debian version that a container name cannot hold
Illegal == {"~", ":", "+"}
\* s with "-" at the places of the characters of Illegal
Dashed(s) == [i \in 1..Len(s) |-> IF s[i] \in Illegal THEN "-" ELSE s[i]]
\* the last n characters of s
Ending(s, n) == SubSeq(s, Len(s) - n + 1, Len(s))
\* the part of s in front of its first "-"
BeforeDash(s) ==
    LET dashes == {i \in 1..Len(s) : s[i] = "-"}
    IN  IF dashes = {} THEN s
        ELSE SubSeq(s, 1, (CHOOSE i \in dashes : \A j \in dashes : i <= j) - 1)
HasBpo(v) == \E i \in 1..(Len(v) - 2) : v[i] = "b" /\ v[i + 1] = "p" /\ v[i + 2] = "o"

\* C17: when the version holds "~", ":" or "+", the container name holds none of them,
\* and the version is in it with "-" in the place of each of them.
C17_NoIllegalChars ==
    (/\ named.out # <<>>
     /\ \E c \in Illegal : HasChar(named.args.Version, c))
    => /\ \A c \in Illegal : ~HasChar(named.out[1].Container, c)
       /\ Ending(named.out[1].Container, Len(named.args.Version) + 1)
              = <<"_">> \o Dashed(named.args.Version)

\* C18: UNRELEASED becomes unstable, any other target loses all from its first "-" on,
\* "-backports" is appended exactly when the version holds "bpo", and the image name,
\* the container name and the paths of the package store carry that same target.
C18_TargetSanitized ==
    named.out # <<>> =>
        LET a == named.args
            n == named.out[1]
            first == IF a.Target = Unreleased THEN Unstable ELSE BeforeDash(a.Target)
        IN  /\ n.Args.Target = IF HasBpo(a.Version) THEN first \o <<"-">> \o Backports
                                                    ELSE first
            /\ HasChar(n.Args.Target, "-") <=> HasBpo(a.Version)
            /\ n.Image = a.Prefix \o <<":">> \o n.Args.Target
            /\ HasPrefix(n.Container,
                         a.Prefix \o <<"_">> \o n.Args.Target \o <<"_">> \o a.Source)
            /\ n.PackagesTargetDir = a.PackagesBaseDir \o <<"/">> \o n.Args.Target
            /\ n.PackagesSourceDir = n.PackagesTargetDir \o <<"/">> \o a.Source
            /\ n.PackagesVersionDir = n.PackagesSourceDir \o <<"/">> \o a.Version

\* a backport to bookworm-security has been named: the target is bookworm-backports
C18_Witness ==
    /\ named.out # <<>>
    /\ named.args.Target = <<"b", "o", "o", "k", "w", "o", "r", "m", "-", "s", "e", "c", "u", "r", "i", "t", "y">>
    /\ HasBpo(named.args.Version)
    /\ named.out[1].Args.Target = <<"b", "o", "o", "k", "w", "o", "r", "m", "-", "b", "a", "c", "k", "p", "o", "r", "t", "s">>
    /\ named.out[1].Image = Deber \o <<":">> \o <<"b", "o", "o", "k", "w", "o", "r", "m", "-", "b", "a", "c", "k", "p", "o", "r", "t", "s">>

(***************************************************************************)
(* Properties of CompareMounts (checked under SpecMounts)                  *)
(* cmp.a is the list of the existing container, cmp.b the desired list     *)
(***************************************************************************)
Elements(s) == {s[i] : i \in 1..Len(s)}
Count(s, m) == Cardinality({i \in 1..Len(s) : s[i] = m})
\* the two lists hold the same mounts the same number of times
IsPermutation(a, b) == \A m \in Elements(a) \cup Elements(b) : Count(a, m) = Count(b, m)
\* b is a without its i-th element
Without(a, i) == [j \in 1..(Len(a) - 1) |-> IF j < i THEN a[j] ELSE a[j + 1]]
IsOneRemoved(a, b) == \E i \in 1..Len(a) : b = Without(a, i)
\* b is a with one element replaced by a different mount
IsOneReplaced(a, b) ==
    /\ Len(a) = Len(b)
    /\ \E i \in 1..Len(a) : a[i] # b[i] /\ \A j \in 1..Len(a) : j # i => a[j] = b[j]

C8_Symmetric ==
    /\ (cmp.ab # <<>> /\ cmp.ba # <<>>) => cmp.ab = cmp.ba
    /\ (cmp.ab # <<>> /\ IsPermutation(cmp.a, cmp.b)) => cmp.ab = <<TRUE>>
    /\ (cmp.ab # <<>> /\ IsOneRemoved(cmp.a, cmp.b)) => cmp.ab = <<FALSE>>
    /\ (cmp.ab # <<>> /\ IsOneReplaced(cmp.a, cmp.b)) => cmp.ab = <<FALSE>>

(***************************************************************************)
(* Properties of Tarball (checked under SpecTarball)                       *)
(***************************************************************************)
Last == executed[Len(executed)]
LastIs(stage) == executed # <<>> /\ Last.stage = stage

\* the names of FileNames that begin with pkg_1.0.orig.tar and end in gz, xz or bz2,
\* and those that begin with pkg_1.0.orig.tar
ParentMatches(f) == {x \in {TarGz, TarXz} : f.files["parent"][x].kind # "absent"}
BuildMatches(f) == {x \in {TarGz, TarXz, TarAsc} : f.files["build"][x].kind # "absent"}

\* C9: for a non-native package Tarball fails with the ambiguous-tarball error when the
\* parent directory or the build directory holds more than one matching file, and with
\* the missing-tarball error when neither holds one; in both cases no file is moved or
\* deleted.
C9_AmbiguousOrMissing ==
    (LastIs("Tarball") /\ cfg.version # cfg.upstream) =>
        /\ (Cardinality(ParentMatches(fsBefore)) > 1 \/ Cardinality(BuildMatches(fsBefore)) > 1)
           => /\ Last.outcome = "Failed"
              /\ Last.err \in {ErrMultipleBuild, ErrMultipleSource}
              /\ fs = fsBefore
        /\ (ParentMatches(fsBefore) = {} /\ BuildMatches(fsBefore) = {})
           => /\ Last.outcome = "Failed"
              /\ Last.err = ErrMissing
              /\ fs = fsBefore

\* Tarball has refused two tarballs in the parent directory
C9_Witness ==
    /\ LastIs("Tarball")
    /\ cfg.version # cfg.upstream
    /\ Cardinality(ParentMatches(fsBefore)) = 2
    /\ Cardinality(BuildMatches(fsBefore)) <= 1
    /\ Last.err = ErrMultipleSource
    /\ fs = fsBefore

\* C10: for a non-native package with exactly one match in the parent directory and none
\* in the build directory, Tarball returns Done, the tarball is in the build directory
\* under the same name, and the entry of the parent directory no longer exists.
C10_MovedNotCopied ==
    (/\ LastIs("Tarball")
     /\ cfg.version # cfg.upstream
     /\ Cardinality(ParentMatches(fsBefore)) = 1
     /\ BuildMatches(fsBefore) = {}) =>
        \A s \in ParentMatches(fsBefore) :
            /\ Last.outcome = "Done"
            /\ At(fs, Path("build", s)).kind # "absent"
            /\ At(fs, Path("parent", s)).kind = "absent"

\* C11: for a non-native package with exactly one match in the build directory and none
\* in the parent directory, Tarball returns Skipped and leaves both directories as
\* they were.
C11_AlreadyStaged ==
    (/\ LastIs("Tarball")
     /\ cfg.version # cfg.upstream
     /\ Cardinality(BuildMatches(fsBefore)) = 1
     /\ ParentMatches(fsBefore) = {}) =>
        /\ Last.outcome = "Skipped"
        /\ fs = fsBefore

\* Tarball has skipped over a staged tarball while the parent directory holds only a
\* signature file
C11_Witness ==
    /\ LastIs("Tarball")
    /\ cfg.version # cfg.upstream
    /\ BuildMatches(fsBefore) = {TarGz}
    /\ ParentMatches(fsBefore) = {}
    /\ At(fsBefore, Path("parent", TarAsc)).kind = "file"
    /\ Last.outcome = "Skipped"
    /\ fs = fsBefore

(***************************************************************************)
(* Properties of Archive (checked under SpecArchive)                       *)
(***************************************************************************)
\* the entries of the build directory that are not directories
BuildFiles(f) == {x \in FileNames : At(f, Path("build", x)).kind \in {"file", "link"}}
\* no two names of the build directory and the store stand for the same file
OneFilePerName(f) ==
    LET names == {p \in {"build", "store"} \X FileNames : At(f, <<p[1], p[2]>>).kind # "absent"}
    IN  \A p, q \in names :
            EvalSymlinks(f, <<p[1], p[2]>>).path = EvalSymlinks(f, <<q[1], q[2]>>).path => p = q
\* Archive has been called twice in a row, the build directory being the same both times
ArchivedTwice ==
    /\ Len(executed) >= 2
    /\ LastIs("Archive")
    /\ executed[Len(executed) - 1].stage = "Archive"
    /\ fs.files["build"] = fsBefore.files["build"]
\* the second call has written nothing and has reported Skipped for every file
SecondRunSkipsAll ==
    /\ fs = fsBefore
    /\ \A i \in 1..Len(Last.files) : Last.files[i][2] # "Done"
    /\ \A x \in BuildFiles(fs) : <<x, "Skipped">> \in Elements(Last.files)

StoreHasSameSum(f, x) ==
    LET source == ReadFile(f, Path("build", x))
        target == ReadFile(f, Path("store", x))
    IN  source.err = None /\ target.err = None /\ Md5Sum(target.data) = Md5Sum(source.data)
\* the store has a readable file under the name x with the bytes of the build file
StoreHasSameBytes(f, x) ==
    LET source == ReadFile(f, Path("build", x))
        target == ReadFile(f, Path("store", x))
    IN  source.err = None /\ target.err = None /\ target.data = source.data
ReportedAs(x, outcome) == <<x, outcome>> \in Elements(Last.files)

\* C13, as the specification states it: for every non-directory file of the build
\* directory Archive skips copying exactly when the store has a file of that name with a
\* matching checksum, and otherwise writes the bytes of the file to the store; after
\* Archive has returned Done every non-directory file of the build directory has a copy
\* of that name with identical content in the store.
C13_CopyUnlessSameSum ==
    LastIs("Archive") =>
        /\ \A x \in BuildFiles(fsBefore) :
               IF StoreHasSameSum(fsBefore, x)
               THEN ReportedAs(x, "Skipped")
               ELSE ReportedAs(x, "Done") /\ StoreHasSameBytes(fs, x)
        /\ Last.outcome = "Done" => \A x \in BuildFiles(fs) : StoreHasSameBytes(fs, x)

\* C13, amended: when no two names of the build directory and the store stand for the
\* same file, Archive returns Failed at the first file it cannot read or write and
\* handles no file after it; every file it does handle it skips exactly when the store
\* has a file of that name with a matching checksum, and otherwise writes its bytes to
\* the store; after Archive has returned Done every non-directory file of the build
\* directory has a copy of that name in the store with the same checksum.
C13_CopyUnlessSameSumHandled ==
    (LastIs("Archive") /\ OneFilePerName(fsBefore)) =>
        /\ \A i \in 1..Len(Last.files) :
               LET x == Last.files[i][1]
               IN  /\ x \in BuildFiles(fsBefore)
                   /\ Last.files[i][2] = "Failed" => (i = Len(Last.files) /\ Last.outcome = "Failed")
                   /\ Last.files[i][2] # "Failed" =>
                          IF StoreHasSameSum(fsBefore, x)
                          THEN Last.files[i][2] = "Skipped"
                          ELSE Last.files[i][2] = "Done" /\ StoreHasSameBytes(fs, x)
        /\ Last.outcome = "Failed" =>
               (Last.files # <<>> /\ Last.files[Len(Last.files)][2] = "Failed")
        /\ Last.outcome = "Done" =>
               \A x \in BuildFiles(fs) :
                   /\ ReportedAs(x, "Skipped") \/ ReportedAs(x, "Done")
                   /\ StoreHasSameSum(fs, x)

\* Archive has returned Done after replacing a file of the store whose bytes differed
\* and skipping one whose bytes were the same
C13_Witness ==
    /\ LastIs("Archive")
    /\ Last.outcome = "Done"
    /\ ReportedAs(Deb, "Done")
    /\ ReadFile(fsBefore, Path("store", Deb)).data = "old"
    /\ StoreHasSameBytes(fs, Deb)
    /\ ReportedAs(TarGz, "Skipped")
    /\ OneFilePerName(fsBefore)

(***************************************************************************)
(* Properties of the pipeline (checked under Spec and SpecRerun)           *)
(***************************************************************************)
Names == [i \in 1..Len(executed) |-> executed[i].stage]
IsPrefixOf(s, t) == Len(s) <= Len(t) /\ s = SubSeq(t, 1, Len(s))
Succeeded(e) == e.outcome \in {"Done", "Skipped"}
\* the index of the stage that failed first, 0 when none has
FirstFailed ==
    IF \E i \in 1..Len(executed) : executed[i].outcome = "Failed"
    THEN CHOOSE i \in 1..Len(executed) :
             /\ executed[i].outcome = "Failed"
             /\ \A j \in 1..(i - 1) : executed[j].outcome # "Failed"
    ELSE 0

\* the wrapper calls a stage has issued, by name, and those of them that change the
\* image or the container
CallNames(stage) ==
    LET own == SelectSeq(calls, LAMBDA x : x.stage = stage)
    IN  [i \in 1..Len(own) |-> own[i].call.name]
Changing == {"ImageBuild", "ContainerCreate", "ContainerStop", "ContainerRemove", "ContainerStart"}
ChangingCalls(stage) == SelectSeq(CallNames(stage), LAMBDA n : n \in Changing)
Queries == {"IsImageBuilt", "ImageAge", "IsContainerCreated", "ContainerMounts",
            "IsContainerStarted"}

\* C1: without the shell flag the stages run in the order Build, Create, Start, Tarball,
\* Depends, Package, Lint, Archive, Stop, Remove, each only after every earlier one has
\* returned Done or Skipped, and none runs twice; the one stage outside that order is
\* the Remove that follows a failed Package.
C1_StageOrder ==
    ~cfg.shell =>
        LET n == Len(executed)
        IN  IF n >= 2 /\ executed[n - 1].stage = "Package" /\ executed[n - 1].outcome = "Failed"
            THEN /\ executed[n].stage = "Remove"
                 /\ IsPrefixOf(SubSeq(Names, 1, n - 1), Order)
                 /\ \A i \in 1..(n - 2) : Succeeded(executed[i])
            ELSE /\ IsPrefixOf(Names, Order)
                 /\ \A i \in 1..(n - 1) : Succeeded(executed[i])
                 /\ \A i, j \in 1..n : Names[i] = Names[j] => i = j

\* a run without the shell flag has gone through all ten stages and returned nil
C1_Witness ==
    /\ ~cfg.shell
    /\ pc = "done"
    /\ Names = Order
    /\ runErr = "nil"

\* C2: once a stage has returned Failed no later stage executes, but for the Remove that
\* follows a failed Package, and run returns the error of the stage that failed first.
C2_AbortOnFirstFailure ==
    FirstFailed # 0 =>
        LET i == FirstFailed
        IN  /\ Len(executed) > i
               => /\ Len(executed) = i + 1
                  /\ executed[i].stage = "Package"
                  /\ executed[i + 1].stage = "Remove"
            /\ pc = "done" => runErr = executed[i].err
            /\ pc # "done" => pc = "Cleanup" /\ executed[i].stage = "Package" /\ Len(executed) = i

\* Lint has failed and run has returned its error
C2_Witness ==
    /\ pc = "done"
    /\ LastIs("Lint")
    /\ Last.outcome = "Failed"
    /\ runErr = Last.err
    /\ runErr # "nil"

\* C3: after Package has failed, Lint, Archive and Stop do not execute, the Remove stage
\* is invoked exactly once whether or not the container exists, and run returns the
\* error of Package even when Remove fails.
C3_CleanupAfterPackage ==
    \A i \in 1..Len(executed) :
        (executed[i].stage = "Package" /\ executed[i].outcome = "Failed") =>
            /\ \A j \in 1..Len(executed) : executed[j].stage \notin {"Lint", "Archive", "Stop"}
            /\ pc \in {"Cleanup", "done"}
            /\ pc = "Cleanup" => \A j \in 1..Len(executed) : executed[j].stage # "Remove"
            /\ pc = "done"
               => /\ Cardinality({j \in 1..Len(executed) : executed[j].stage = "Remove"}) = 1
                  /\ Len(CallNames("Remove")) >= 1
                  /\ CallNames("Remove")[1] = "IsContainerCreated"
                  /\ runErr = executed[i].err

\* Package has failed, the Remove that followed has failed with another error, and run
\* has returned the error of Package
C3_Witness ==
    /\ pc = "done"
    /\ Len(executed) >= 2
    /\ executed[Len(executed) - 1].stage = "Package"
    /\ executed[Len(executed) - 1].outcome = "Failed"
    /\ Last.stage = "Remove"
    /\ Last.outcome = "Failed"
    /\ Last.err # executed[Len(executed) - 1].err
    /\ runErr = executed[Len(executed) - 1].err

StartByState ==
    IF dockBefore.state = ContainerStateRunning
    THEN /\ Last.outcome = "Skipped"
         /\ ChangingCalls("Start") = <<>>
    ELSE /\ ChangingCalls("Start") = <<"ContainerStart">>
         /\ \/ Last.outcome = "Done" /\ Last.err = None
            \/ Last.outcome = "Failed" /\ Last.err = "ContainerStart"

\* C5, as the specification states it: Start issues no start call and returns Skipped
\* when the container is running; otherwise it issues exactly one start call and
\* reports Done or Failed according to the result of that call.
C5_StartOnce == LastIs("Start") => StartByState

\* C5, amended: the same, provided the query of the container state succeeds; when the
\* query fails Start issues no start call and returns Failed with the error of the query.
C5_StartOnceAfterQuery ==
    LastIs("Start") =>
        IF Last.err = "IsContainerStarted"
        THEN /\ Last.outcome = "Failed"
             /\ ChangingCalls("Start") = <<>>
        ELSE StartByState

\* Start has found the container not running and started it with one call
C5_Witness ==
    /\ LastIs("Start")
    /\ dockBefore.state \in {"created", "exited"}
    /\ Last.outcome = "Done"
    /\ CallNames("Start") = <<"IsContainerStarted", "ContainerStart">>

\* Create has asked whether the container exists and has been answered
CreateFound ==
    /\ LastIs("Create")
    /\ CallNames("Create") # <<>>
    /\ Last.err # "IsContainerCreated"

\* the container exists with exactly the desired mounts
HasDesiredMounts(d) ==
    /\ d.state # "absent"
    /\ IsPermutation(d.mounts, DesiredMounts(cfg).mounts)

Recreate == <<"ContainerStop", "ContainerRemove", "ContainerCreate">>

ImageWasYoung == dockBefore.image.built /\ dockBefore.image.age < cfg.maxAge
BuildSkippedQuietly ==
    /\ Last.outcome = "Skipped"
    /\ "GetTags" \notin Elements(CallNames("Build"))
    /\ "ImageBuild" \notin Elements(CallNames("Build"))

\* C14, as the specification states it: Build returns Skipped, with no remote tag lookup
\* and no image-build call, exactly when the image exists and is younger than the
\* maximum age; when the image is missing or at least that old, Build resolves the base
\* OS family and issues an image-build call.
C14_SkipIffYoung ==
    LastIs("Build") =>
        /\ Last.outcome = "Skipped" <=> ImageWasYoung
        /\ Last.outcome = "Skipped" => BuildSkippedQuietly
        /\ ~ImageWasYoung =>
               /\ "GetTags" \in Elements(CallNames("Build"))
               /\ "ImageBuild" \in Elements(CallNames("Build"))

\* C14, amended: the same provided the queries of the image succeed, the image-build
\* call being issued when a base OS family is resolved; when a query of the image fails
\* Build returns Failed with no remote tag lookup and no image-build call.
C14_SkipIffYoungAfterQuery ==
    LastIs("Build") =>
        IF Last.err \in {"IsImageBuilt", "ImageAge"}
        THEN /\ Last.outcome = "Failed"
             /\ "GetTags" \notin Elements(CallNames("Build"))
             /\ "ImageBuild" \notin Elements(CallNames("Build"))
        ELSE /\ Last.outcome = "Skipped" <=> ImageWasYoung
             /\ Last.outcome = "Skipped" => BuildSkippedQuietly
             /\ ~ImageWasYoung =>
                    /\ "GetTags" \in Elements(CallNames("Build"))
                    /\ "ImageBuild" \in Elements(CallNames("Build"))
                       <=> Last.err \notin {ErrNoMatch, "GetTags"}

\* Build has rebuilt an image that was exactly as old as the maximum age
C14_Witness ==
    /\ LastIs("Build")
    /\ dockBefore.image.built
    /\ dockBefore.image.age = cfg.maxAge
    /\ Last.outcome = "Done"
    /\ "ImageBuild" \in Elements(CallNames("Build"))
    /\ dock.image.age = 0

\* the calls of a stage with what they are about
CallsOf(stage) ==
    LET own == SelectSeq(calls, LAMBDA x : x.stage = stage)
    IN  [i \in 1..Len(own) |-> <<own[i].call.name, own[i].call.arg>>]
\* Build has found that the image is missing or too old
MustBuild ==
    /\ LastIs("Build")
    /\ ~ImageWasYoung
    /\ Last.err \notin {"IsImageBuilt", "ImageAge"}
\* what C15 says of a Build that has looked the target up in the tag lists
NoMatchOrFirstMatch ==
    /\ (\A repo \in {"debian", "ubuntu"} : ~dock.hub.tags[repo])
       => /\ Last.outcome = "Failed"
          /\ Last.err = ErrNoMatch
          /\ "ImageBuild" \notin Elements(CallNames("Build"))
    /\ (\A repo \in {"debian", "ubuntu"} : dock.hub.tags[repo])
       => /\ <<"ImageBuild", "debian">> \in Elements(CallsOf("Build"))
          /\ <<"ImageBuild", "ubuntu">> \notin Elements(CallsOf("Build"))

\* C15, as the specification states it: when Build must build and the target matches no
\* tag of either list, Build fails with the no-match error and issues no image-build
\* call; when the target matches tags of both lists, debian is chosen.
C15_NoMatchOrDebianFirst == MustBuild => NoMatchOrFirstMatch

\* C15, amended: the same provided the tag lookups succeed; when a lookup fails Build
\* fails with the error of the lookup and issues no image-build call.
C15_NoMatchOrDebianFirstAfterLookup ==
    MustBuild =>
        IF Last.err = "GetTags"
        THEN Last.outcome = "Failed" /\ "ImageBuild" \notin Elements(CallNames("Build"))
        ELSE NoMatchOrFirstMatch

\* Build has built from debian, the target being a tag of debian and of ubuntu
C15_Witness ==
    /\ MustBuild
    /\ \A repo \in {"debian", "ubuntu"} : dock.hub.tags[repo]
    /\ Last.outcome = "Done"
    /\ CallsOf("Build")[Len(CallsOf("Build"))] = <<"ImageBuild", "debian">>
    /\ <<"GetTags", "ubuntu">> \notin Elements(CallsOf("Build"))
    /\ dock.image.from = "debian"

(***************************************************************************)
(* Properties of the container state queries (checked under SpecStates)    *)
(***************************************************************************)
\* C19: containerStopped is containerExists and not containerRunning, false for a
\* container that does not exist: Stop, once its query is answered, is Skipped exactly
\* for a container that exists and is not running.
C19_StoppedIsCreatedNotStarted ==
    (LastIs("Stop") /\ Last.err # "IsContainerStopped")
    => (Last.outcome = "Skipped"
        <=> (IsContainerCreated(dockBefore) /\ ~IsContainerStarted(dockBefore)))

\* C20: containerRunning is true in the running state only: Start, once its query is
\* answered, is Skipped when the container is running, and for a container that is
\* created, exited, restarting, paused, dead or missing it goes on to the start call.
C20_StartedOnlyWhenRunning ==
    (LastIs("Start") /\ Last.err # "IsContainerStarted")
    => /\ Last.outcome = "Skipped" <=> dockBefore.state = "running"
       /\ dockBefore.state \in {"created", "exited", "restarting", "paused", "dead",
                                "absent"}
          => /\ Last.outcome \in {"Done", "Failed"}
             /\ Last.err \in {None, "ContainerStart"}
             /\ calls[Len(calls)] = [stage |-> "Start", call |-> Call("ContainerStart", "", FALSE)]

\* Start has found a paused container not running and has asked the engine to start it
C20_Witness ==
    /\ LastIs("Start")
    /\ dockBefore.state = "paused"
    /\ Last.outcome = "Failed"
    /\ Last.err = "ContainerStart"
    /\ calls[Len(calls)].call.name = "ContainerStart"

(***************************************************************************)
(* Properties of the stages that execute commands (checked under SpecExec) *)
(***************************************************************************)
\* the commands the latest stage has handed to the engine, in order, each with whether
\* the container was on the network
Commands ==
    LET ran == SelectSeq(SubSeq(calls, given.from + 1, Len(calls)),
                         LAMBDA x : x.call.name = "ContainerExec")
    IN  [i \in 1..Len(ran) |-> <<ran[i].call.arg, ran[i].call.net>>]

\* C21: with tests disabled by --no-test the command of Package is the
\* dpkg-buildpackage invocation behind DEB_BUILD_OPTIONS='nocheck nodoc notest'; with
\* tests not disabled it is the plain dpkg-buildpackage invocation with the user's flags.
C21_NoTestWraps ==
    (LastIs("Package") /\ Commands # <<>>)
    => Commands[1][1] =
           IF cfg.noTest
           THEN "DEB_BUILD_OPTIONS='nocheck nodoc notest' dpkg-buildpackage " \o cfg.dpkgFlags
           ELSE "dpkg-buildpackage " \o cfg.dpkgFlags

(***************************************************************************)
(* Properties of run under the flags (checked under Spec)                  *)
(***************************************************************************)
\* C22: with --no-remove a run that has come through Stop returns nil there: the Remove
\* stage is not invoked and issues no call, and Stop has executed; without the flag
\* Remove is invoked next after Stop.
C22_KeepContainer ==
    /\ (\E i \in 1..Len(executed) : executed[i].stage = "Stop" /\ Succeeded(executed[i]))
       => IF cfg.noRemove
          THEN /\ pc = "done"
               /\ runErr = "nil"
               /\ Last.stage = "Stop"
               /\ "Remove" \notin Elements(Names)
               /\ CallNames("Remove") = <<>>
               /\ "ContainerRemove" \notin Elements(CallNames("Stop"))
          ELSE \/ pc = "Remove" /\ Last.stage = "Stop"
               \/ /\ pc = "done"
                  /\ Last.stage = "Remove"
                  /\ executed[Len(executed) - 1].stage = "Stop"
    /\ (pc = "done" /\ runErr = "nil" /\ ~cfg.shell) => "Stop" \in Elements(Names)

\* a run with --no-remove has returned nil after Stop and the container is still there
C22_Witness ==
    /\ cfg.noRemove
    /\ pc = "done"
    /\ runErr = "nil"
    /\ LastIs("Stop")
    /\ Last.outcome = "Done"
    /\ dock.state = "exited"

\* C23: with --shell the Shell stage runs after a Start that has succeeded and run
\* returns what Shell returns: Tarball, Depends, Package, Lint, Archive, Stop and Remove
\* do not execute.
C23_ShellEndsRun ==
    cfg.shell =>
        /\ \A i \in 1..Len(executed) :
               executed[i].stage \in {"Build", "Create", "Start", "Shell"}
        /\ (LastIs("Start") /\ Succeeded(Last)) => pc = "Shell"
        /\ pc = "Shell" => (LastIs("Start") /\ Succeeded(Last))
        /\ LastIs("Shell")
           => /\ pc = "done"
              /\ runErr = (IF Last.err = None THEN "nil" ELSE Last.err)
              /\ executed[Len(executed) - 1].stage = "Start"
              /\ Succeeded(executed[Len(executed) - 1])
        /\ pc \notin {"Tarball", "Depends", "Package", "Cleanup", "Lint", "Archive", "Stop",
                      "Remove"}

\* the shell has been left and run has returned nil, the container still running
C23_Witness ==
    /\ cfg.shell
    /\ pc = "done"
    /\ LastIs("Shell")
    /\ Last.outcome = "Done"
    /\ runErr = "nil"
    /\ Names = <<"Build", "Create", "Start", "Shell">>
    /\ dock.state = ContainerStateRunning

FailedBeforeAnyCall ==
    /\ Last.outcome = "Failed"
    /\ calls = <<>>
    /\ dock = dockBefore
    /\ fs = fsBefore

\* the places in the list of extra packages at which the loop of Create returns: a
\* match that cannot be inspected, or that is neither a directory nor named *.deb
Offending ==
    {i \in 1..Len(cfg.packages) :
        /\ Glob(cfg.packages[i]) # <<>>
        /\ \/ ~Stat(cfg.packages[i])
           \/ ~IsDir(cfg.packages[i]) /\ ~HasSuffixDeb(cfg.packages[i])}

\* C28, as the specification states it: when a supplied extra-package path is neither
\* a directory nor a .deb file Create fails with the invalid-extra-package error before
\* any call of the engine: no container is created, stopped or removed and no host
\* directory is made.
C28_InvalidExtraPackage ==
    (/\ LastIs("Create")
     /\ \E i \in 1..Len(cfg.packages) :
            ~(Stat(cfg.packages[i]) /\ IsDir(cfg.packages[i]))
            /\ ~(Stat(cfg.packages[i]) /\ HasSuffixDeb(cfg.packages[i])))
    => (Last.err = ErrExtraPackage /\ FailedBeforeAnyCall)

\* C28, amended: the same for the files the supplied patterns match; a pattern that
\* matches no file is passed over, and a match that cannot be inspected makes Create
\* fail with the error of os.Stat, before any call of the engine too.
C28_InvalidExtraPackageMatched ==
    LastIs("Create") =>
        IF Offending = {}
        THEN Last.err \notin {ErrExtraPackage, ErrStat}
        ELSE LET i == CHOOSE i \in Offending : \A j \in Offending : i <= j
             IN  /\ FailedBeforeAnyCall
                 /\ Last.err = IF Stat(cfg.packages[i]) THEN ErrExtraPackage ELSE ErrStat

\* a directory of packages and a text file were supplied: Create has failed on the
\* text file with nothing called and nothing made
C28_Witness ==
    /\ LastIs("Create")
    /\ cfg.packages = <<"debs", "notes.txt">>
    /\ Last.err = ErrExtraPackage
    /\ FailedBeforeAnyCall
    /\ fs.dirs = {}

(***************************************************************************)
(* More properties of the stages that execute commands (under SpecExec)    *)
(***************************************************************************)
\* the calls of the latest stage
Issued == SubSeq(calls, given.from + 1, Len(calls))
\* the engine has failed no call of the latest stage and the container was running
Undisturbed == given.k = 0 /\ dockBefore.state = ContainerStateRunning
\* the commands the latest stage runs one after the other when none fails, those with
\* the Skip flag left out
ToRun ==
    CASE Last.stage = "Depends" ->
           IF cfg.packages = <<>>
           THEN <<"rm -f a.sources", "apt-get update", "apt-get build-dep ./">>
           ELSE <<"rm -f a.sources", "echo URIs: file:///archive ./ > a.sources",
                  "dpkg-scanpackages -m . > Packages", "apt-get update",
                  "apt-get build-dep ./">>
      [] Last.stage = "Lint" ->
           IF cfg.lintian
           THEN <<"debi --with-depends", "debc", "lintian " \o cfg.lintianFlags>>
           ELSE <<>>
      [] Last.stage = "Package" -> <<Commands[1][1]>>
      [] OTHER -> <<"">>
\* the commands of the latest stage that have the Skip flag set
Skipping ==
    IF Last.stage = "Depends" /\ cfg.packages = <<>>
    THEN {"echo URIs: file:///archive ./ > a.sources", "dpkg-scanpackages -m . > Packages"}
    ELSE {}
\* the command to which the non-zero exit status was given, "" when to none that ran
Exited ==
    LET args == CASE Last.stage = "Depends" -> DependsArgs(cfg)
                  [] Last.stage = "Lint" -> LintArgs(cfg)
                  [] OTHER -> <<ExecArgs("", FALSE, FALSE, FALSE, FALSE)>>
    IN  IF given.bad = 0 \/ (Last.stage = "Lint" /\ ~cfg.lintian) THEN ""
        ELSE IF Last.stage = "Package" THEN Commands[1][1]
        ELSE IF args[given.bad].Cmd \in Skipping THEN ""
        ELSE args[given.bad].Cmd
CommandNames == [i \in 1..Len(Commands) |-> Commands[i][1]]

\* C27: a command that is not interactive and exits with a non-zero status makes
\* ContainerExec return the non-zero-exit error and its stage Failed; an interactive
\* session does not return that error whatever its exit status; a command with the Skip
\* flag returns success and no call is issued for it.
C27_NonZeroExit ==
    executed # <<>> =>
        /\ (Last.stage \in {"Depends", "Package", "Lint"} /\ Undisturbed /\ Exited # "")
           => /\ Last.outcome = "Failed"
              /\ Last.err = ErrNonZero
              /\ CommandNames[Len(CommandNames)] = Exited
        /\ Last.stage = "Shell"
           => /\ Last.err # ErrNonZero
              /\ Undisturbed => Last.outcome = "Done"
        /\ \A i \in 1..Len(CommandNames) : CommandNames[i] \notin Skipping
        /\ (Last.stage = "Depends" /\ Undisturbed /\ Exited = "" /\ Skipping # {})
           => /\ Last.outcome = "Done"
              /\ Len(Issued) = 2 * (Len(DependsArgs(cfg)) - Cardinality(Skipping))

\* the interactive shell has exited with a non-zero status and Shell has returned Done
C27_Witness ==
    /\ LastIs("Shell")
    /\ given.bad = 1
    /\ Undisturbed
    /\ Last.outcome = "Done"

\* C29: Depends does not return Skipped. It runs the removal of the local source list,
\* then, only if extra packages were supplied, the writing of the list and the rebuilding
\* of the index, then the update of the package cache and the installation of the build
\* dependencies, both with the network on; at the first command that fails it returns
\* Failed and runs none of the rest.
C29_DependsInOrder ==
    LastIs("Depends") =>
        /\ Last.outcome # "Skipped"
        /\ IsPrefixOf(CommandNames, ToRun)
        /\ \A i \in 1..Len(Commands) :
               Commands[i][1] \in {"apt-get update", "apt-get build-dep ./"}
               => Commands[i][2]
        /\ Last.outcome = "Done" <=> (Last.err = None /\ CommandNames = ToRun)
        /\ (Undisturbed /\ Exited # "")
           => /\ Last.outcome = "Failed"
              /\ CommandNames[Len(CommandNames)] = Exited
              /\ \A i \in 1..(Len(CommandNames) - 1) : CommandNames[i] # Exited
        /\ (Undisturbed /\ Exited = "") => Last.outcome = "Done"

\* packages were supplied and the rebuilding of the index has failed: the cache was
\* not updated and no dependency installed
C29_Witness ==
    /\ LastIs("Depends")
    /\ cfg.packages # <<>>
    /\ Last.outcome = "Failed"
    /\ Last.err = ErrNonZero
    /\ CommandNames = <<"rm -f a.sources", "echo URIs: file:///archive ./ > a.sources",
                        "dpkg-scanpackages -m . > Packages">>
    /\ ~dock.deps

\* C30: without --lintian Lint issues no call and returns Skipped; with it Lint runs the
\* installation of the package with the network on, the inspection of the changed
\* files and lintian with the user's flags, in that order, and returns Failed at the
\* first command that fails.
C30_LintByFlag ==
    LastIs("Lint") =>
        IF ~cfg.lintian
        THEN Last.outcome = "Skipped" /\ Issued = <<>> /\ dock = dockBefore
        ELSE /\ Last.outcome # "Skipped"
             /\ IsPrefixOf(CommandNames, ToRun)
             /\ \A i \in 1..Len(Commands) :
                    Commands[i][1] = "debi --with-depends" => Commands[i][2]
             /\ Last.outcome = "Done" <=> (Last.err = None /\ CommandNames = ToRun)
             /\ (Undisturbed /\ Exited # "")
                => /\ Last.outcome = "Failed"
                   /\ CommandNames[Len(CommandNames)] = Exited
             /\ (Undisturbed /\ Exited = "") => Last.outcome = "Done"

\* with --lintian the inspection of the changed files has failed and lintian did not run
C30_Witness ==
    /\ LastIs("Lint")
    /\ cfg.lintian
    /\ Last.outcome = "Failed"
    /\ Last.err = ErrNonZero
    /\ CommandNames = <<"debi --with-depends", "debc">>

(***************************************************************************)
(* Properties of the stages under a race (checked under SpecRace)          *)
(***************************************************************************)
\* somebody else has acted on the container after the state query of the latest stage,
\* and the call that the stage has issued next has failed
RaceLost ==
    /\ executed # <<>>
    /\ given.race # None
    /\ Last.err \in {"ContainerStart", "ContainerStop", "ContainerRemove"}
\* the stage has returned Failed, having issued once the call that failed
FailedNotRetried ==
    /\ Last.outcome = "Failed"
    /\ Len(Issued) = 2
    /\ Issued[2].call.name = Last.err
\* the latest stage is the Remove that run calls after a failed Package
AfterPackage ==
    /\ Len(executed) >= 2
    /\ executed[Len(executed) - 1].stage = "Package"
    /\ executed[Len(executed) - 1].outcome = "Failed"

\* C25, as the specification states it: when somebody else changes the container
\* between the state query of a stage and the call that follows it and the call fails,
\* the stage returns Failed, the call is not issued again, and run returns that error.
C25_RaceFails ==
    RaceLost => /\ FailedNotRetried
                /\ pc = "done"
                /\ runErr = Last.err

\* C25, amended: the same, but that after the Remove that follows a failed Package run
\* returns the error of Package.
C25_RaceFailsButCleanup ==
    RaceLost => /\ FailedNotRetried
                /\ pc = "done"
                /\ runErr = IF AfterPackage THEN executed[Len(executed) - 1].err
                                            ELSE Last.err

\* the container was removed after Start had found it not running: the start call has
\* failed, with no fault of the engine, and run has returned its error
C25_Witness ==
    /\ RaceLost
    /\ Last.stage = "Start"
    /\ given.race = "remove"
    /\ given.k = 0
    /\ dockBefore.state = "exited"
    /\ dock.state = "absent"
    /\ pc = "done"
    /\ runErr = "ContainerStart"

(***************************************************************************)
(* Properties of the interactive session (checked under SpecShell)         *)
(***************************************************************************)
WatcherSpawned == session.watcher # "none"
SessionEnded == session.exec = "ended"
WatcherTerminated == session.watcher = "gone"
\* a step of resizeIfChanged
WatcherStep == session'.resizes # session.resizes
PipelineState == <<dock, fs, pc, executed, runErr, calls>>

\* C26: the resize watcher spawned for an interactive session terminates at last once
\* the session has ended, and no step of it changes the container, the host files, the
\* calls issued by the stages, the place of run or what the stages have reported.
C26_WatcherEndsAndIsInert ==
    /\ (SessionEnded /\ WatcherSpawned) ~> WatcherTerminated
    /\ [][WatcherStep => UNCHANGED PipelineState]_vars

\* the session has ended after the watcher had handled changes of the window, and the
\* watcher is gone with the program
C26_Witness ==
    /\ SessionEnded
    /\ WatcherTerminated
    /\ session.resizes = MaxResizes
    /\ session.process = "exited"
    /\ runErr = "nil"

(***************************************************************************)
(* The network of the commands (checked under SpecNetwork)                 *)
(***************************************************************************)
\* the Network flag that the stages give to a command
NetworkFlag(cmd) ==
    CASE cmd \in {"apt-get update", "apt-get build-dep ./", "debi --with-depends", ""} -> TRUE
      [] cmd = PackageCmd(cfg.dpkgFlags, cfg.noTest) -> cfg.network
      [] OTHER -> FALSE
\* the commands that have started, with the network they started with
Started == SelectSeq(calls, LAMBDA x : x.call.name = "ContainerExec")

\* C31: every command that is not skipped starts with the container connected to the
\* bridge exactly when its Network flag is set; the command of Package starts connected
\* exactly when --network is given, also right after the commands of Depends that
\* ran connected.
C31_NetworkAsFlagged ==
    \A i \in 1..Len(Started) :
        /\ Started[i].call.net <=> NetworkFlag(Started[i].call.arg)
        /\ Started[i].stage = "Package" => (Started[i].call.net <=> cfg.network)

\* Depends has installed the build dependencies with the network, and the command of
\* Package has started without it right after
C31_Witness ==
    /\ Len(executed) = 2
    /\ executed[1].stage = "Depends" /\ executed[1].outcome = "Done"
    /\ executed[2].stage = "Package" /\ executed[2].outcome = "Done"
    /\ ~cfg.network
    /\ Len(Started) >= 2
    /\ Started[Len(Started) - 1].call.net
    /\ ~Started[Len(Started)].call.net

(***************************************************************************)
(* Tarball: native packages, the staged tarball, repeated calls (checked   *)
(* under SpecTarball)                                                      *)
(***************************************************************************)
NativePackage == cfg.version = cfg.upstream
\* the file behind an entry of the parent directory, links followed
Behind(f, name) == At(f, EvalSymlinks(f, Path("parent", name)).path)
\* the matching entries of the build directory with what they hold
Staged(f) == [x \in BuildMatches(f) |-> At(f, Path("build", x))]

\* C32: for a native package Tarball returns Skipped and leaves the parent directory
\* and the build directory as they are, whatever tarballs they hold.
C32_NativeSkips ==
    (LastIs("Tarball") /\ NativePackage) => (Last.outcome = "Skipped" /\ fs = fsBefore)

\* Tarball has skipped for a native package over directories that it refuses for
\* another package
C32_Witness ==
    /\ LastIs("Tarball")
    /\ NativePackage
    /\ Last.outcome = "Skipped"
    /\ Cardinality(BuildMatches(fs)) > 1
    /\ Cardinality(ParentMatches(fs)) > 1

\* C33: when Tarball returns Done or Skipped for a non-native package, the build
\* directory holds exactly one file whose name begins with pkg_1.0.orig.tar; when the
\* parent directory held a match on entry, that file is the tarball of the parent
\* directory under its name, and no tarball staged earlier is left.
C33_OneStaged ==
    (LastIs("Tarball") /\ ~NativePackage /\ Succeeded(Last)) =>
        /\ Cardinality(BuildMatches(fs)) = 1
        /\ \A s \in ParentMatches(fsBefore) :
               /\ BuildMatches(fs) = {s}
               /\ At(fs, Path("build", s)) = Behind(fsBefore, s)

\* the tarball of the parent directory has taken the place of a stale one of another name
C33_Witness ==
    /\ LastIs("Tarball")
    /\ ~NativePackage
    /\ Last.outcome = "Done"
    /\ ParentMatches(fsBefore) = {TarGz}
    /\ BuildMatches(fsBefore) = {TarXz}
    /\ BuildMatches(fs) = {TarGz}
    /\ At(fs, Path("build", TarGz)) = File("orig", "0644")

\* C34: a call of Tarball that follows at once a call that returned Done returns
\* Skipped and leaves the staged tarball in the build directory, also when the match of
\* the parent directory was a symbolic link.
C34_Idempotent ==
    (/\ Len(executed) >= 2
     /\ LastIs("Tarball")
     /\ executed[Len(executed) - 1].stage = "Tarball"
     /\ executed[Len(executed) - 1].outcome = "Done") =>
        /\ Last.outcome = "Skipped"
        /\ Staged(fs) = Staged(fsBefore)
        /\ Cardinality(BuildMatches(fs)) = 1

\* C35: when Tarball returns Failed, the build directory holds the matching tarballs
\* it held before the call.
C35_FailedKeepsStaged ==
    (LastIs("Tarball") /\ Last.outcome = "Failed") => Staged(fs) = Staged(fsBefore)

(***************************************************************************)
(* The container at the remove calls and at the end of a run (checked      *)
(* under Spec)                                                             *)
(***************************************************************************)
RemoveCalls == SelectSeq(calls, LAMBDA x : x.call.name = "ContainerRemove")

\* C36: every remove call that run issues, in Remove at the end, in Create before the
\* container is made again, and in the Remove that follows a failed Package, is for a
\* container that is not running when the call is issued.
C36_RemoveTargetsStopped ==
    \A i \in 1..Len(RemoveCalls) : ~EngineRunning(RemoveCalls[i].call.arg)

\* run has returned nil, every stage it called was Done or Skipped, and nobody else
\* has touched the container
CleanRun ==
    /\ pc = "done"
    /\ runErr = "nil"
    /\ interfered = 0
    /\ \A i \in 1..Len(executed) : Succeeded(executed[i])
ContainerAtEnd ==
    IF cfg.noRemove THEN dock.state # "absent" /\ ~EngineRunning(dock.state)
                    ELSE dock.state = "absent"

\* C37, as the specification states it: after a run in which every stage is Done or
\* Skipped and nobody interferes, the container is gone without --no-remove, and with
\* it the container exists and is not running.
C37_ContainerAtEnd == CleanRun => ContainerAtEnd

\* C37, amended: the same for a run without --shell, which is the run that comes to
\* Stop and Remove.
C37_ContainerAtEndNoShell == (CleanRun /\ ~cfg.shell) => ContainerAtEnd

\* a run with --no-remove has ended after Stop has stopped the container
C37_Witness ==
    /\ CleanRun
    /\ ~cfg.shell
    /\ cfg.noRemove
    /\ LastIs("Stop")
    /\ Last.outcome = "Done"
    /\ dock.state = "exited"

(***************************************************************************)
(* Archive: what it leaves alone, and the mode of what it writes (checked  *)
(* under SpecArchive)                                                      *)
(***************************************************************************)
\* an entry of a directory together with what is read under its name, links followed
Seen(f, dir, x) == <<At(f, Path(dir, x)), ReadFile(f, Path(dir, x))>>
\* the names of the store under which something else is found than before the call
StoreChanged == {x \in FileNames : Seen(fs, "store", x) # Seen(fsBefore, "store", x)}
BuildChanged == {x \in FileNames : Seen(fs, "build", x) # Seen(fsBefore, "build", x)}
StoreLinks(f) == {x \in FileNames : At(f, Path("store", x)).kind = "link"}
ArchiveFrame ==
    /\ BuildChanged = {}
    /\ StoreChanged \subseteq BuildFiles(fsBefore)
    /\ \A x \in BuildFiles(fsBefore) : StoreHasSameSum(fsBefore, x) => x \notin StoreChanged

C39_ModePreserved ==
    LastIs("Archive") =>
        \A x \in BuildFiles(fsBefore) :
            ReportedAs(x, "Done") =>
                ReadFile(fs, Path("store", x)).mode = ReadFile(fsBefore, Path("build", x)).mode

(***************************************************************************)
(* The image of the container (checked under Spec)                         *)
(***************************************************************************)
\* C40: when Create returns Done or Skipped, the container is one created from the
\* image that bears the image name now; after Build has built the image anew, the
\* stages that follow do not work in a container created from the image before.
\* (Nobody else has touched the container.)
C40_ContainerOfCurrentImage ==
    (LastIs("Create") /\ Succeeded(Last) /\ interfered = 0) => dock.base = "current"

====
